---- MODULE Spec2Model ----
(***************************************************************************)
(* A model of chitchat, an asyncio IRC client library.                     *)
(*                                                                         *)
(*   Part 1  BaseClient (chitchat/base.py): the connection life cycle, the *)
(*           configuration properties and send.     Specification: Spec    *)
(*   Part 2  BotClient / SimpleBot (chitchat/base.py, chitchat/bot.py):    *)
(*           the run loop, trigger and the registered handlers.            *)
(*                                                  Specification: SpecBot *)
(*   Part 3  AsyncConnection (chitchat/connection.py): connect, disconnect,*)
(*           send and the _run task on the write queue.                    *)
(*                                                 Specification: SpecConn *)
(*   Part 4  Client (chitchat/client.py): trigger, _run_callback and       *)
(*           wait_for.                             Specification: SpecWait *)
(*   Part 5  Client (chitchat/client.py): connect, disconnect, run and     *)
(*           shutdown.            Specifications: SpecClient, SpecClientLive *)
(*   Part 6  The table of registered actions: on and the lookup of         *)
(*           SimpleBot (chitchat/bot.py) and of Client                     *)
(*           (chitchat/__init__.py). Specifications: SpecOn, SpecSynonym   *)
(*   Further parts, each introduced where it begins: Client.register       *)
(*           (SpecRegister), CaseInsensitiveDefaultDict (SpecDict), the    *)
(*           functions of utils, commands and irc (SpecUtils,              *)
(*           SpecISupport), SimpleBot.intercept (SpecIntercept).           *)
(*                                                                         *)
(* The parts share the variables; each specification leaves the variables  *)
(* of the other parts as they are initially.                               *)
(*                                                                         *)
(* Conventions.  None is 0.  A stream pair returned by                     *)
(* asyncio.open_connection is named by a positive integer; reader and      *)
(* writer of one pair carry the same number.  Configuration values are     *)
(* opaque Python objects, written as strings.  ev records the operation    *)
(* performed by the last step and how it ended (the value returned or the  *)
(* exception raised to the caller).                                        *)
(***************************************************************************)
EXTENDS Integers, Sequences, FiniteSets, TLC

VARIABLES
    host, port, ssl,     \* BaseClient._host, _port, _ssl
    connected,           \* BaseClient._connected
    reader, writer,      \* BaseClient.reader, BaseClient.writer
    opening,             \* connect() coroutines suspended in open_connection
    opened,              \* stream pairs opened so far
    closes,              \* closes[t]: calls of close() on writer t
    written,             \* the calls of writer.write, in order: <<writer, line>>
    ev,                  \* the last operation and its outcome
    \* BotClient / SimpleBot
    is_async,            \* is_async[a]: the async flag action a was registered with
    garbled,             \* the received lines that are not valid in self.encoding
    registered,          \* self.actions[command]: the set of actions registered
    nread,               \* lines the run loop has taken from the reader
    rbuf,                \* lines received and buffered in the reader
    eof,                 \* the reader has been fed end of stream
    rl,                  \* the run() coroutine: where it stands, what it dispatches
    inst,                \* inst[m][a]: the call of action a's handler for line m
    \* the asyncio event loop
    ready,               \* its ready queue: the tasks to run, in order
    \* AsyncConnection
    transport,           \* AsyncConnection.transport
    queue,               \* AsyncConnection.queue: the items put and not yet taken
    unfinished,          \* queue._unfinished_tasks
    getters,             \* queue._getters: the _run tasks suspended in queue.get
    joiners,             \* the disconnect() calls suspended in queue.join
    runner,              \* runner[t]: the _run task created by the connect that made t
    disc,                \* disc[d]: the d-th call of disconnect()
    hpos,                \* hpos[h]: lines handler task h has sent
    nsent,               \* the lines send() has put on the queue so far
    lost,                \* lines taken from the queue and not written
    \* Client: the callback table and wait_for
    callbacks,           \* Client.callbacks[command], a list
    fut,                 \* the Future of wait_for
    wt,                  \* the task that awaits wait_for
    timer,               \* the timeout handle of asyncio.wait_for
    ndisp,               \* messages dispatched so far
    invoked,             \* the messages waiter was called with, in order
    \* Client: connect, disconnect, shutdown
    events,              \* the pseudo-events passed to trigger: <<name, peer, exc>>
    dloc,                \* dloc[d]: the locals peer and exc of disconnect() call d
    sd,                  \* the shutdown() coroutine
    cancelled,           \* the tasks shutdown() has called cancel() on
    \* the table of registered actions, by command
    actions,             \* self.actions: command -> set of actions (a defaultdict(set))
    regs,                \* the calls of on() made so far: <<command, action>>
    fired,               \* the actions the last dispatch invoked
    icpt,                \* the call of SimpleBot.intercept: its queue, task and outcome
    all_callbacks,       \* Client.callbacks[constants.ALL], a list
    \* structures.CaseInsensitiveDefaultDict
    dict,                \* self._dict: casefolded key -> <<key, value>>
    default_factory,     \* self.default_factory
    inserted,            \* the key with which each entry was first inserted
    \* the functions of utils, commands and irc
    fin,                 \* the arguments of the call
    fout,                \* what the call returned
    ISUPPORT             \* irc.ISUPPORT: feature -> parsing rule

baseVars == <<host, port, ssl, connected, reader, writer, opening, opened,
              closes, written>>

botVars == <<is_async, garbled, registered, nread, rbuf, eof, rl, inst>>

connVars == <<transport, queue, unfinished, getters, joiners, runner, disc, hpos,
              nsent, lost>>

waitVars == <<callbacks, fut, wt, timer, ndisp, invoked>>

clientVars == <<events, dloc, sd, cancelled>>

tableVars == <<actions, regs, fired, icpt, all_callbacks>>

dictVars == <<dict, default_factory, inserted>>

pureVars == <<fin, fout, ISUPPORT>>

vars == <<baseVars, ev, ready, botVars, connVars, waitVars, clientVars, tableVars,
          dictVars, pureVars>>

----------------------------------------------------------------------------
(* Bounds of the model *)

MaxTransports == 3

MaxOpening == 2

MaxWritten == 2

Transports == 1..MaxTransports

HostValues == {"127.0.0.1", "irc.rizon.net"}

PortValues == {"0", "6667"}

SslValues == {"True", "False"}

\* lines handed to send by the application: <<message, action, item>>, 0 = none
ApiLines == {<<0, 0, 1>>, <<0, 0, 2>>}

Event(op, out, arg, w) == [op |-> op, out |-> out, arg |-> arg, w |-> w]

----------------------------------------------------------------------------
(* BaseClient *)

BaseInit ==
    /\ host = "127.0.0.1"
    /\ port = "0"
    /\ ssl = "True"
    /\ connected = FALSE
    /\ reader = 0
    /\ writer = 0
    /\ opening = 0
    /\ opened = 0
    /\ closes = [t \in Transports |-> 0]
    /\ written = <<>>

\* connect(), up to its suspension in asyncio.open_connection
connect_unguarded ==
    /\ opening < MaxOpening
    /\ opened + opening < MaxTransports
    /\ opening' = opening + 1
    /\ ev' = Event("connect", "suspended", "", 0)
    /\ UNCHANGED <<host, port, ssl, connected, reader, writer, opened, closes, written>>

\* connect without its check of self.connected
Mut_connect == connect_unguarded

connect ==
    IF connected
    THEN /\ ev' = Event("connect", "RuntimeError", "", 0)
         /\ UNCHANGED baseVars
    ELSE connect_unguarded

\* connect forgetting to set self._connected
Mut_connect_resume ==
    /\ opening > 0
    /\ opening' = opening - 1
    /\ opened' = opened + 1
    /\ reader' = opened + 1
    /\ writer' = opened + 1
    /\ ev' = Event("connect.resume", "ok", "", opened + 1)
    /\ UNCHANGED <<host, port, ssl, connected, closes, written>>

\* open_connection returns: reader, writer and _connected are assigned
connect_resume ==
    /\ opening > 0
    /\ opening' = opening - 1
    /\ opened' = opened + 1
    /\ reader' = opened + 1
    /\ writer' = opened + 1
    /\ connected' = TRUE
    /\ ev' = Event("connect.resume", "ok", "", opened + 1)
    /\ UNCHANGED <<host, port, ssl, closes, written>>

\* open_connection raises (the host refuses): nothing is assigned
connect_refused ==
    /\ opening > 0
    /\ opening' = opening - 1
    /\ ev' = Event("connect.resume", "OSError", "", 0)
    /\ UNCHANGED <<host, port, ssl, connected, reader, writer, opened, closes, written>>

disconnect_unguarded ==
    /\ reader' = 0
    /\ closes' = [t \in Transports |-> IF t = writer THEN closes[t] + 1 ELSE closes[t]]
    /\ writer' = 0
    /\ connected' = FALSE
    /\ ev' = Event("disconnect", "ok", "", writer)
    /\ UNCHANGED <<host, port, ssl, opening, opened, written>>

\* disconnect without its check of self.connected
Mut_disconnect == disconnect_unguarded

disconnect ==
    IF ~connected
    THEN /\ ev' = Event("disconnect", "noop", "", 0)
         /\ UNCHANGED baseVars
    ELSE disconnect_unguarded

host_setter_unguarded(value) ==
    /\ host' = value
    /\ ev' = Event("host.setter", "ok", value, 0)
    /\ UNCHANGED <<port, ssl, connected, reader, writer, opening, opened, closes, written>>

\* the host setter without its check of self.connected
Mut_host_setter(value) == host_setter_unguarded(value)

host_setter(value) ==
    IF connected
    THEN /\ ev' = Event("host.setter", "AttributeError", value, 0)
         /\ UNCHANGED baseVars
    ELSE host_setter_unguarded(value)

port_setter(value) ==
    IF connected
    THEN /\ ev' = Event("port.setter", "AttributeError", value, 0)
         /\ UNCHANGED baseVars
    ELSE /\ port' = value
         /\ ev' = Event("port.setter", "ok", value, 0)
         /\ UNCHANGED <<host, ssl, connected, reader, writer, opening, opened, closes, written>>

ssl_setter(value) ==
    IF connected
    THEN /\ ev' = Event("ssl.setter", "AttributeError", value, 0)
         /\ UNCHANGED baseVars
    ELSE /\ ssl' = value
         /\ ev' = Event("ssl.setter", "ok", value, 0)
         /\ UNCHANGED <<host, port, connected, reader, writer, opening, opened, closes, written>>

\* writer.write(line) on writer w, log the calls of write so far
write(w, log, line) == Append(log, <<w, line>>)

\* send without its check of self.writer
Mut_send_to(w, log, line) == [out |-> "ok", log |-> write(w, log, line)]

\* self.send(line) with self.writer = w: the outcome and the log of writes
send_to(w, log, line) ==
    IF w = 0
    THEN [out |-> "RuntimeError", log |-> log]
    ELSE [out |-> "ok", log |-> write(w, log, line)]

\* the application calls client.send(line)
send(line) ==
    LET r == send_to(writer, written, line) IN
    /\ Len(r.log) <= MaxWritten
    /\ written' = r.log
    /\ ev' = Event("send", r.out, "", writer)
    /\ UNCHANGED <<host, port, ssl, connected, reader, writer, opening, opened, closes>>

----------------------------------------------------------------------------
(* BotClient / SimpleBot: values shared by the specifications *)

\* registered actions and received lines
NumActions == 3

NumMsgs == 2

Actions == 1..NumActions

Msgs == 1..NumMsgs

\* What the handler of action a does, in order: "L" it yields a line to
\* send, "P" it yields a Future or Task to wait for, "X" it raises.
Script(a) ==
    CASE a = 1 -> <<"L", "P", "L">>
      [] a = 3 -> <<"X">>
      [] OTHER -> <<"L">>

NoInst == [st |-> "none", pos |-> 1, task |-> FALSE]

BotIdle ==
    /\ is_async = [a \in Actions |-> FALSE]
    /\ garbled = {}
    /\ registered = Actions
    /\ nread = 0
    /\ rbuf = 0
    /\ eof = FALSE
    /\ rl = [pc |-> "none", m |-> 0, todo |-> {}, cur |-> 0, res |-> "", used |-> 0]
    /\ inst = [m \in Msgs |-> [a \in Actions |-> NoInst]]

\* AsyncConnection: handler tasks, calls of disconnect()
NumHandlers == 2

MaxConnects == 2

MaxDisconnects == 2

Handlers == 1..NumHandlers

Disconnects == 1..MaxDisconnects

\* the lines a handler task sends, in order
HandlerScript == <<"a", "b">>

\* AsyncConnection.EXIT
EXIT == 0

\* AsyncConnection.__init__
ConnInit ==
    /\ transport = 0
    /\ queue = <<>>
    /\ unfinished = 0
    /\ getters = <<>>
    /\ joiners = <<>>
    /\ runner = [t \in Transports |-> "none"]
    /\ disc = [d \in Disconnects |-> "none"]
    /\ hpos = [h \in Handlers |-> 0]
    /\ nsent = 0
    /\ lost = {}

\* Client: messages dispatched
MaxDispatched == 4

\* Client.__init__, with one callback registered by on()
WaitInit ==
    /\ callbacks = <<"on">>
    /\ fut = [state |-> "none", result |-> 0]
    /\ wt = [st |-> "none", timed |-> FALSE, since |-> 0]
    /\ timer = "none"
    /\ ndisp = 0
    /\ invoked = <<>>

\* Client: the tasks that send lines are the handler tasks of AsyncConnection
NoPeer == <<"", 0>>

\* no call of connect, disconnect or shutdown has been made
ClientIdle ==
    /\ events = <<>>
    /\ dloc = [d \in Disconnects |-> [peer |-> NoPeer, exc |-> "None"]]
    /\ sd = [st |-> "none", mark |-> 0]
    /\ cancelled = {}

\* the commands a registration or a received line can name, as spelled
Spellings == {"privmsg", "Privmsg", "PRIVMSG", "PING", "001", "RPL_WELCOME"}

\* collections.defaultdict(set) before any registration: every key reads as
\* the empty set
\* intercept has not been called
NoIntercept ==
    [st |-> "none", commands |-> <<>>, timeout |-> FALSE, queue |-> <<>>,
     task |-> "none", result |-> 0, puts |-> 0]

TableIdle ==
    /\ actions = [k \in Spellings |-> {}]
    /\ regs = {}
    /\ fired = {}
    /\ icpt = NoIntercept
    /\ all_callbacks = <<>>

\* the keys of the mapping, after str.casefold
Folded == {"privmsg", "ping"}

\* a CaseInsensitiveDefaultDict(list) that holds nothing
DictIdle ==
    /\ dict = [f \in Folded |-> <<>>]
    /\ default_factory = "list"
    /\ inserted = [f \in Folded |-> ""]

\* a parsing rule of the table: a function, or None
Rule(name) == [kind |-> "function", name |-> name]

NoRule == [kind |-> "None"]

\* irc.ISUPPORT as the module defines it, for the features of the model
ISUPPORT0 ==
    [f \in {"CHANLIMIT", "CHANNELLEN", "PREFIX", "NETWORK", "SAFELIST", "TARGMAX"} |->
        CASE f = "CHANLIMIT" -> Rule("split_at_colon_iter")
          [] f = "CHANNELLEN" -> Rule("int")
          [] f = "PREFIX" -> Rule("prefix")
          [] f = "NETWORK" -> Rule("str")
          [] f = "SAFELIST" -> NoRule
          [] f = "TARGMAX" -> Rule("split_at_colon")]

\* no function has been called
PureIdle ==
    /\ fin = <<>>
    /\ fout = <<>>
    /\ ISUPPORT = ISUPPORT0

Init ==
    /\ BaseInit
    /\ BotIdle
    /\ ConnInit
    /\ WaitInit
    /\ ClientIdle
    /\ TableIdle
    /\ DictIdle
    /\ PureIdle
    /\ ready = <<>>
    /\ ev = Event("__init__", "ok", "", 0)

Next ==
    \/ connect /\ UNCHANGED <<ready, botVars, connVars, waitVars, clientVars, tableVars, dictVars, pureVars>>
    \/ connect_resume /\ UNCHANGED <<ready, botVars, connVars, waitVars, clientVars, tableVars, dictVars, pureVars>>
    \/ connect_refused /\ UNCHANGED <<ready, botVars, connVars, waitVars, clientVars, tableVars, dictVars, pureVars>>
    \/ disconnect /\ UNCHANGED <<ready, botVars, connVars, waitVars, clientVars, tableVars, dictVars, pureVars>>
    \/ \E value \in HostValues : host_setter(value) /\ UNCHANGED <<ready, botVars, connVars, waitVars, clientVars, tableVars, dictVars, pureVars>>
    \/ \E value \in PortValues : port_setter(value) /\ UNCHANGED <<ready, botVars, connVars, waitVars, clientVars, tableVars, dictVars, pureVars>>
    \/ \E value \in SslValues : ssl_setter(value) /\ UNCHANGED <<ready, botVars, connVars, waitVars, clientVars, tableVars, dictVars, pureVars>>
    \/ \E line \in ApiLines : send(line) /\ UNCHANGED <<ready, botVars, connVars, waitVars, clientVars, tableVars, dictVars, pureVars>>

Spec == Init /\ [][Next]_vars

----------------------------------------------------------------------------
(* BotClient / SimpleBot: run, handle, trigger and the wrapped handlers,   *)
(* on the asyncio event loop.                                              *)
(*                                                                         *)
(* The loop runs one callback at a time, in the order in which they became *)
(* ready (ready is its FIFO).  run() is a task; so is every handler that   *)
(* trigger hands to ensure_future.  A task runs until it suspends: run()   *)
(* suspends in open_connection, in the reader when no line is buffered,    *)
(* and in a handler it awaits when that handler waits on a Future.  Its    *)
(* run between two suspensions is taken in several steps (a line, then one *)
(* action of the for loop of trigger at a time); while it is under way     *)
(* (Busy) nothing else happens.                                            *)

\* str.casefold on the strings of the model
Casefold(s) == CASE s = "Hello" -> "hello" [] OTHER -> s

\* an equality that compares the strings as they are
Mut_equality(a, case_sensitive, b) == a = b

\* utils.equality(a, case_sensitive)(b), a and b strings
equality(a, case_sensitive, b) ==
    IF ~case_sensitive THEN Casefold(a) = Casefold(b) ELSE a = b

\* utils.as_comparable(arg)(b) for a requirement arg that is a string (the
\* requirements of the model are strings)
as_comparable(arg, b) == equality(arg, FALSE, b)

\* the text of received line m (its last parameter)
MsgText(m) == IF m % 2 = 1 THEN "Hello" ELSE "goodbye"

\* line.decode(self.encoding) for received line m
decode(m) ==
    IF m \in garbled
    THEN [ok |-> FALSE, text |-> ""]
    ELSE [ok |-> TRUE, text |-> MsgText(m)]

\* the keyword requirements action a was registered with: values for text
Requirements(a) == IF a = 2 THEN <<"hello">> ELSE <<>>

\* action.meets_requirements(message): every requirement matches
meets_requirements(a, m) ==
    \A i \in 1..Len(Requirements(a)) : as_comparable(Requirements(a)[i], MsgText(m))

\* wrapped(message) of on(): the handler of action a for line m runs from its
\* item i until it waits on a Future, ends, or send raises; w is self.writer
RECURSIVE wrapped(_, _, _, _, _)
wrapped(m, a, i, w, log) ==
    IF i > Len(Script(a)) THEN [st |-> "done", pos |-> i, log |-> log]
    ELSE IF Script(a)[i] = "P" THEN [st |-> "paused", pos |-> i + 1, log |-> log]
    ELSE IF Script(a)[i] = "X" THEN [st |-> "failed", pos |-> i, log |-> log]
    ELSE LET r == send_to(w, log, <<m, a, i>>) IN
         IF r.out # "ok" THEN [st |-> "failed", pos |-> i, log |-> log]
         ELSE wrapped(m, a, i + 1, w, r.log)

\* trigger running every matching action as a task
Mut7_dispatch_mode(a) == "ensure_future"

\* trigger awaiting every matching action
Mut9_dispatch_mode(a) == "yield from"

\* trigger: how a matching action is run
dispatch_mode(a) == IF is_async[a] THEN "ensure_future" ELSE "yield from"

\* the action SimpleBot.intercept registers for the time of its wait
Interceptor == 0

\* where run() goes on once a turn of the for loop of trigger is over: the
\* loop asks the iterator of the set self.actions[command] for the next
\* action, which raises RuntimeError if the size of the set is no longer what
\* it was when the loop began
AfterAction(todo) ==
    IF Cardinality(registered) # rl.used THEN "crashed"
    ELSE IF todo = {} THEN "read" ELSE "trigger"

\* run() is between two suspensions
Busy == rl.pc \in {"read", "trigger"}

RunTask == <<0, 0>>

BotInit ==
    /\ BaseInit
    /\ is_async \in [Actions -> BOOLEAN]
    /\ garbled \in {{}} \cup {{m} : m \in Msgs}
    /\ registered = Actions
    /\ nread = 0
    /\ rbuf = 0
    /\ eof = FALSE
    /\ ready = <<RunTask>>
    /\ ConnInit
    /\ WaitInit
    /\ ClientIdle
    /\ TableIdle
    /\ DictIdle
    /\ PureIdle
    /\ rl = [pc |-> "start", m |-> 0, todo |-> {}, cur |-> 0, res |-> "", used |-> 0]
    /\ inst = [m \in Msgs |-> [a \in Actions |-> NoInst]]
    /\ ev = Event("__init__", "ok", "", 0)

\* run(): await self.connect()
run_connect ==
    /\ rl.pc = "start"
    /\ ready # <<>> /\ Head(ready) = RunTask
    /\ ready' = Tail(ready)
    /\ connect
    /\ rl' = [rl EXCEPT !.pc = IF connected THEN "crashed" ELSE "connecting"]
    /\ UNCHANGED <<is_async, garbled, registered, nread, rbuf, eof, inst>>

\* the connection is made, or refused: run() becomes ready
open_connection_done ==
    /\ ~Busy
    /\ rl.pc = "connecting" /\ rl.res = ""
    /\ \E res \in {"ok", "OSError"} : rl' = [rl EXCEPT !.res = res]
    /\ ready' = Append(ready, RunTask)
    /\ ev' = Event("open_connection", "done", "", 0)
    /\ UNCHANGED <<baseVars, is_async, garbled, registered, nread, rbuf, eof, inst>>

\* run(): connect goes on after open_connection, and the while loop starts
run_connected ==
    /\ rl.pc = "connecting" /\ rl.res = "ok"
    /\ ready # <<>> /\ Head(ready) = RunTask
    /\ ready' = Tail(ready)
    /\ connect_resume
    /\ rl' = [rl EXCEPT !.pc = "read", !.res = ""]
    /\ UNCHANGED <<is_async, garbled, registered, nread, rbuf, eof, inst>>

run_refused ==
    /\ rl.pc = "connecting" /\ rl.res = "OSError"
    /\ ready # <<>> /\ Head(ready) = RunTask
    /\ ready' = Tail(ready)
    /\ connect_refused
    /\ rl' = [rl EXCEPT !.pc = "crashed", !.res = ""]
    /\ UNCHANGED <<is_async, garbled, registered, nread, rbuf, eof, inst>>

\* the server sends k lines: they are buffered in the reader, and run()
\* becomes ready if it waits for a line
data_received ==
    /\ ~Busy
    /\ connected /\ ~eof
    /\ \E k \in 1..NumMsgs :
         /\ nread + rbuf + k <= NumMsgs
         /\ rbuf' = rbuf + k
    /\ IF rl.pc = "waitdata" /\ rl.res = ""
       THEN ready' = Append(ready, RunTask) /\ rl' = [rl EXCEPT !.res = "data"]
       ELSE UNCHANGED <<ready, rl>>
    /\ ev' = Event("data_received", "ok", "", 0)
    /\ UNCHANGED <<baseVars, is_async, garbled, registered, nread, eof, inst>>

\* the server closes the connection
eof_received ==
    /\ ~Busy
    /\ connected /\ ~eof
    /\ eof' = TRUE
    /\ IF rl.pc = "waitdata" /\ rl.res = ""
       THEN ready' = Append(ready, RunTask) /\ rl' = [rl EXCEPT !.res = "data"]
       ELSE UNCHANGED <<ready, rl>>
    /\ ev' = Event("eof_received", "ok", "", 0)
    /\ UNCHANGED <<baseVars, is_async, garbled, registered, nread, rbuf, inst>>

\* run() goes on in the reader
run_wake ==
    /\ rl.pc = "waitdata" /\ rl.res = "data"
    /\ ready # <<>> /\ Head(ready) = RunTask
    /\ ready' = Tail(ready)
    /\ rl' = [rl EXCEPT !.pc = "read", !.res = ""]
    /\ ev' = Event("run.wake", "ok", "", 0)
    /\ UNCHANGED <<baseVars, is_async, garbled, registered, nread, rbuf, eof, inst>>

\* run() taking a line although the dispatch of the current one has not returned
Mut_run_read ==
    /\ rl.pc \in {"read", "sync"}
    /\ rbuf > 0
    /\ nread' = nread + 1
    /\ rbuf' = rbuf - 1
    /\ rl' = [rl EXCEPT !.pc = "trigger", !.m = nread + 1, !.todo = registered, !.cur = 0,
                         !.used = Cardinality(registered)]
    /\ ev' = Event("run.read", "ok", "", 0)
    /\ UNCHANGED <<baseVars, is_async, garbled, registered, eof, ready, inst>>

\* run(): the reader yields a buffered line; handle decodes and parses it
\* and trigger starts on the actions of its command.  A line that does not
\* decode raises in handle, and so in run(), which has no handler for it.
run_read ==
    /\ rl.pc = "read"
    /\ rbuf > 0
    /\ nread' = nread + 1
    /\ rbuf' = rbuf - 1
    /\ IF decode(nread + 1).ok
       THEN /\ rl' = [rl EXCEPT !.pc = "trigger", !.m = nread + 1, !.todo = registered,
                                !.cur = 0, !.used = Cardinality(registered)]
            /\ ev' = Event("run.read", "ok", "", 0)
       ELSE /\ rl' = [rl EXCEPT !.pc = "crashed", !.m = nread + 1]
            /\ ev' = Event("run.read", "UnicodeDecodeError", "", 0)
    /\ UNCHANGED <<baseVars, is_async, garbled, registered, eof, ready, inst>>

\* run(): no line is buffered and the stream has not ended: run() suspends
run_wait ==
    /\ rl.pc = "read"
    /\ rbuf = 0 /\ ~eof
    /\ rl' = [rl EXCEPT !.pc = "waitdata"]
    /\ ev' = Event("run.wait", "ok", "", 0)
    /\ UNCHANGED <<baseVars, is_async, garbled, registered, nread, rbuf, eof, ready, inst>>

\* run(): the reader is at end of stream; disconnect, and the while loop ends
run_eof ==
    /\ rl.pc = "read"
    /\ rbuf = 0 /\ eof
    /\ disconnect
    /\ rl' = [rl EXCEPT !.pc = IF connected' THEN "read" ELSE "returned"]
    /\ UNCHANGED <<is_async, garbled, registered, nread, rbuf, eof, ready, inst>>

\* trigger: one turn of the for loop
trigger_step ==
    /\ rl.pc = "trigger"
    /\ \E a \in rl.todo :
         LET m == rl.m
             todo == rl.todo \ {a}
         IN
         IF a = Interceptor
         THEN /\ rl' = [rl EXCEPT !.pc = AfterAction(todo), !.todo = todo]
              /\ ev' = Event("trigger", "intercepted", "", 0)
              /\ UNCHANGED <<baseVars, ready, inst>>
         ELSE IF ~meets_requirements(a, m)
         THEN /\ inst' = [inst EXCEPT ![m][a].st = "skipped"]
              /\ rl' = [rl EXCEPT !.pc = AfterAction(todo), !.todo = todo]
              /\ ev' = Event("trigger", "skipped", "", 0)
              /\ UNCHANGED <<baseVars, ready>>
         ELSE IF dispatch_mode(a) = "ensure_future"
         THEN /\ inst' = [inst EXCEPT ![m][a] = [st |-> "scheduled", pos |-> 1, task |-> TRUE]]
              /\ ready' = Append(ready, <<m, a>>)
              /\ rl' = [rl EXCEPT !.pc = AfterAction(todo), !.todo = todo]
              /\ ev' = Event("trigger", "scheduled", "", 0)
              /\ UNCHANGED baseVars
         ELSE LET r == wrapped(m, a, 1, writer, written) IN
              /\ inst' = [inst EXCEPT ![m][a] = [st |-> r.st, pos |-> r.pos, task |-> FALSE]]
              /\ written' = r.log
              /\ rl' = [rl EXCEPT !.pc = CASE r.st = "paused" -> "sync"
                                           [] r.st = "failed" -> "crashed"
                                           [] OTHER -> AfterAction(todo),
                                  !.todo = todo, !.cur = a]
              /\ ev' = Event("trigger", r.st, "", 0)
              /\ UNCHANGED <<host, port, ssl, connected, reader, writer, opening,
                             opened, closes, ready>>
    /\ UNCHANGED <<is_async, garbled, registered, nread, rbuf, eof>>

\* the Future a suspended handler waits on is done: its task becomes ready
\* (run() itself for a handler that trigger awaits)
future_done ==
    /\ ~Busy
    /\ \E m \in Msgs, a \in Actions :
         /\ inst[m][a].st = "paused"
         /\ inst' = [inst EXCEPT ![m][a].st = "woken"]
         /\ ready' = Append(ready, IF inst[m][a].task THEN <<m, a>> ELSE RunTask)
    /\ ev' = Event("future", "done", "", 0)
    /\ UNCHANGED <<baseVars, is_async, garbled, registered, nread, rbuf, eof, rl>>

\* run() goes on in the handler that trigger awaits
sync_resume ==
    /\ rl.pc = "sync"
    /\ ready # <<>> /\ Head(ready) = RunTask
    /\ ready' = Tail(ready)
    /\ LET m == rl.m
           a == rl.cur
           r == wrapped(m, a, inst[m][a].pos, writer, written)
       IN
       /\ inst' = [inst EXCEPT ![m][a].st = r.st, ![m][a].pos = r.pos]
       /\ written' = r.log
       /\ rl' = [rl EXCEPT !.pc = CASE r.st = "paused" -> "sync"
                                    [] r.st = "failed" -> "crashed"
                                    [] OTHER -> AfterAction(rl.todo)]
       /\ ev' = Event("handler", r.st,
                      IF r.st = "done" /\ AfterAction(rl.todo) = "crashed"
                      THEN "RuntimeError" ELSE "", 0)
    /\ UNCHANGED <<host, port, ssl, connected, reader, writer, opening, opened,
                   closes, is_async, garbled, registered, nread, rbuf, eof>>

\* the event loop runs the task of a handler: from its start, or on from the
\* Future it waited on
task_step ==
    /\ ~Busy
    /\ ready # <<>> /\ Head(ready) # RunTask
    /\ ready' = Tail(ready)
    /\ LET m == Head(ready)[1]
           a == Head(ready)[2]
           r == wrapped(m, a, inst[m][a].pos, writer, written)
       IN
       /\ inst' = [inst EXCEPT ![m][a].st = r.st, ![m][a].pos = r.pos]
       /\ written' = r.log
       /\ ev' = Event("task", r.st, "", 0)
    /\ UNCHANGED <<host, port, ssl, connected, reader, writer, opening, opened,
                   closes, is_async, garbled, registered, nread, rbuf, eof, rl>>

\* a task other than run() enters `with self.intercept(command)`: the action
\* of the interceptor is added to self.actions[command]
intercept_enter ==
    /\ rl.pc \in {"sync", "waitdata"}
    /\ Interceptor \notin registered
    /\ registered' = registered \cup {Interceptor}
    /\ ev' = Event("intercept", "added", "", 0)
    /\ UNCHANGED <<baseVars, is_async, garbled, nread, rbuf, eof, ready, rl, inst>>

\* that task leaves the with block: the finally clause of intercept removes
\* the action
intercept_exit ==
    /\ rl.pc \in {"sync", "waitdata"}
    /\ Interceptor \in registered
    /\ registered' = registered \ {Interceptor}
    /\ ev' = Event("intercept", "removed", "", 0)
    /\ UNCHANGED <<baseVars, is_async, garbled, nread, rbuf, eof, ready, rl, inst>>

BotNext ==
    \/ run_connect /\ UNCHANGED <<connVars, waitVars, clientVars, tableVars, dictVars, pureVars>>
    \/ open_connection_done /\ UNCHANGED <<connVars, waitVars, clientVars, tableVars, dictVars, pureVars>>
    \/ run_connected /\ UNCHANGED <<connVars, waitVars, clientVars, tableVars, dictVars, pureVars>>
    \/ run_refused /\ UNCHANGED <<connVars, waitVars, clientVars, tableVars, dictVars, pureVars>>
    \/ data_received /\ UNCHANGED <<connVars, waitVars, clientVars, tableVars, dictVars, pureVars>>
    \/ eof_received /\ UNCHANGED <<connVars, waitVars, clientVars, tableVars, dictVars, pureVars>>
    \/ run_wake /\ UNCHANGED <<connVars, waitVars, clientVars, tableVars, dictVars, pureVars>>
    \/ run_read /\ UNCHANGED <<connVars, waitVars, clientVars, tableVars, dictVars, pureVars>>
    \/ run_wait /\ UNCHANGED <<connVars, waitVars, clientVars, tableVars, dictVars, pureVars>>
    \/ run_eof /\ UNCHANGED <<connVars, waitVars, clientVars, tableVars, dictVars, pureVars>>
    \/ trigger_step /\ UNCHANGED <<connVars, waitVars, clientVars, tableVars, dictVars, pureVars>>
    \/ future_done /\ UNCHANGED <<connVars, waitVars, clientVars, tableVars, dictVars, pureVars>>
    \/ sync_resume /\ UNCHANGED <<connVars, waitVars, clientVars, tableVars, dictVars, pureVars>>
    \/ task_step /\ UNCHANGED <<connVars, waitVars, clientVars, tableVars, dictVars, pureVars>>

SpecBot == BotInit /\ [][BotNext]_vars

\* the bot with tasks that use intercept while it runs
BotInterceptNext ==
    \/ run_connect /\ UNCHANGED <<connVars, waitVars, clientVars, tableVars, dictVars, pureVars>>
    \/ open_connection_done /\ UNCHANGED <<connVars, waitVars, clientVars, tableVars, dictVars, pureVars>>
    \/ run_connected /\ UNCHANGED <<connVars, waitVars, clientVars, tableVars, dictVars, pureVars>>
    \/ run_refused /\ UNCHANGED <<connVars, waitVars, clientVars, tableVars, dictVars, pureVars>>
    \/ data_received /\ UNCHANGED <<connVars, waitVars, clientVars, tableVars, dictVars, pureVars>>
    \/ eof_received /\ UNCHANGED <<connVars, waitVars, clientVars, tableVars, dictVars, pureVars>>
    \/ run_wake /\ UNCHANGED <<connVars, waitVars, clientVars, tableVars, dictVars, pureVars>>
    \/ run_read /\ UNCHANGED <<connVars, waitVars, clientVars, tableVars, dictVars, pureVars>>
    \/ run_wait /\ UNCHANGED <<connVars, waitVars, clientVars, tableVars, dictVars, pureVars>>
    \/ run_eof /\ UNCHANGED <<connVars, waitVars, clientVars, tableVars, dictVars, pureVars>>
    \/ trigger_step /\ UNCHANGED <<connVars, waitVars, clientVars, tableVars, dictVars, pureVars>>
    \/ future_done /\ UNCHANGED <<connVars, waitVars, clientVars, tableVars, dictVars, pureVars>>
    \/ sync_resume /\ UNCHANGED <<connVars, waitVars, clientVars, tableVars, dictVars, pureVars>>
    \/ task_step /\ UNCHANGED <<connVars, waitVars, clientVars, tableVars, dictVars, pureVars>>
    \/ intercept_enter /\ UNCHANGED <<connVars, waitVars, clientVars, tableVars, dictVars, pureVars>>
    \/ intercept_exit /\ UNCHANGED <<connVars, waitVars, clientVars, tableVars, dictVars, pureVars>>

SpecBotIntercept == BotInit /\ [][BotInterceptNext]_vars

----------------------------------------------------------------------------
(* AsyncConnection: connect, disconnect, send and the _run task that       *)
(* writes the queue to the transport.  Specification: SpecConn.            *)
(*                                                                         *)
(* asyncio.Queue as of Python 3.5.3 to 3.6: put on a queue without maxsize *)
(* never suspends, it appends the item, counts it as unfinished and wakes  *)
(* the first getter; get suspends while the queue is empty; task_done sets *)
(* the event join waits on when the count of unfinished items reaches 0.   *)
(* A task that is woken is appended to the ready queue of the loop.        *)
(* Handler tasks call send at any time between two steps of the others.    *)

\* queue.put(item): put_nowait, as the queue has no maxsize
put(item) ==
    /\ queue' = Append(queue, item)
    /\ unfinished' = unfinished + 1
    /\ IF getters # <<>>
       THEN /\ getters' = Tail(getters)
            /\ runner' = [runner EXCEPT ![Head(getters)] = "ready"]
            /\ ready' = Append(ready, <<"_run", Head(getters)>>)
       ELSE UNCHANGED <<getters, runner, ready>>

\* connect: await self.loop.create_connection(...)
AsyncConnection_connect ==
    /\ opened + opening < MaxConnects
    /\ opening' = opening + 1
    /\ ev' = Event("AsyncConnection.connect", "suspended", "", 0)
    /\ UNCHANGED <<host, port, ssl, connected, reader, writer, opened, closes,
                   written, ready, connVars>>

\* connect goes on: the transport is stored and a _run task is created
AsyncConnection_connect_resume ==
    /\ opening > 0
    /\ opening' = opening - 1
    /\ opened' = opened + 1
    /\ transport' = opened + 1
    /\ runner' = [runner EXCEPT ![opened + 1] = "ready"]
    /\ ready' = Append(ready, <<"_run", opened + 1>>)
    /\ ev' = Event("AsyncConnection.connect", "ok", "", 0)
    /\ UNCHANGED <<host, port, ssl, connected, reader, writer, closes, written,
                   queue, unfinished, getters, joiners, disc, hpos, nsent, lost>>

\* create_connection raises
AsyncConnection_connect_refused ==
    /\ opening > 0
    /\ opening' = opening - 1
    /\ ev' = Event("AsyncConnection.connect", "OSError", "", 0)
    /\ UNCHANGED <<host, port, ssl, connected, reader, writer, opened, closes,
                   written, ready, connVars>>

\* send(line), called by handler task h with its next line.  A line is
\* identified by its rank among the lines put on the queue.
AsyncConnection_send(h) ==
    /\ hpos[h] < Len(HandlerScript)
    /\ put(nsent + 1)
    /\ nsent' = nsent + 1
    /\ hpos' = [hpos EXCEPT ![h] = @ + 1]
    /\ ev' = Event("AsyncConnection.send", "ok", "", 0)
    /\ UNCHANGED <<baseVars, transport, joiners, disc, lost>>

\* disconnect: EXIT is put on the queue, and join suspends as the queue now
\* has an unfinished item
AsyncConnection_disconnect ==
    /\ \E d \in Disconnects :
         /\ disc[d] = "none"
         /\ \A e \in Disconnects : e < d => disc[e] # "none"
         /\ put(EXIT)
         /\ joiners' = Append(joiners, d)
         /\ disc' = [disc EXCEPT ![d] = "joining"]
         /\ ev' = Event("AsyncConnection.disconnect", "suspended", "", 0)
    /\ UNCHANGED <<baseVars, transport, hpos, nsent, lost>>

\* disconnect goes on after join
AsyncConnection_disconnect_resume ==
    /\ ready # <<>> /\ Head(ready)[1] = "disconnect"
    /\ ready' = Tail(ready)
    /\ transport' = 0
    /\ disc' = [disc EXCEPT ![Head(ready)[2]] = "done"]
    /\ ev' = Event("AsyncConnection.disconnect", "ok", "", 0)
    /\ UNCHANGED <<baseVars, queue, unfinished, getters, joiners, runner, hpos,
                   nsent, lost>>

\* a _run that leaves a line out
RECURSIVE Mut_run_loop(_, _, _, _)
Mut_run_loop(q, u, log, t) ==
    IF q = <<>>
    THEN [st |-> "waiting", queue |-> q, unfinished |-> u, log |-> log, lost |-> {}]
    ELSE IF Head(q) = EXIT
    THEN [st |-> "exited", queue |-> Tail(q), unfinished |-> u - 1, log |-> log,
          lost |-> {}]
    ELSE IF t = 0
    THEN [st |-> "failed", queue |-> Tail(q), unfinished |-> u, log |-> log,
          lost |-> {Head(q)}]
    ELSE Mut_run_loop(Tail(q), u - 1, IF Len(q) > 1 THEN log ELSE write(t, log, Head(q)), t)

\* _run: the while loop, from a call of queue.get to the next one that
\* suspends, or to the end of the task; t is self.transport
RECURSIVE run_loop(_, _, _, _)
run_loop(q, u, log, t) ==
    IF q = <<>>
    THEN [st |-> "waiting", queue |-> q, unfinished |-> u, log |-> log, lost |-> {}]
    ELSE IF Head(q) = EXIT
    THEN [st |-> "exited", queue |-> Tail(q), unfinished |-> u - 1, log |-> log,
          lost |-> {}]
    ELSE IF t = 0
    THEN [st |-> "failed", queue |-> Tail(q), unfinished |-> u, log |-> log,
          lost |-> {Head(q)}]
    ELSE run_loop(Tail(q), u - 1, write(t, log, Head(q)), t)

\* the handle that resumes coroutine j suspended in queue.join: a call of
\* disconnect(), or shutdown() (0)
Joiner(j) == IF j = 0 THEN <<"shutdown", 0>> ELSE <<"disconnect", j>>

\* the event loop runs a _run task
AsyncConnection_run ==
    /\ ready # <<>> /\ Head(ready)[1] = "_run"
    /\ LET t == Head(ready)[2]
           r == run_loop(queue, unfinished, written, transport)
           finished == r.unfinished = 0 /\ unfinished > 0
       IN
       /\ queue' = r.queue
       /\ unfinished' = r.unfinished
       /\ written' = r.log
       /\ lost' = lost \cup r.lost
       /\ runner' = [runner EXCEPT ![t] = r.st]
       /\ getters' = IF r.st = "waiting" THEN Append(getters, t) ELSE getters
       /\ IF finished
          THEN /\ ready' = Tail(ready) \o [i \in 1..Len(joiners) |-> Joiner(joiners[i])]
               /\ disc' = [d \in Disconnects |->
                             IF disc[d] = "joining" THEN "woken" ELSE disc[d]]
               /\ joiners' = <<>>
          ELSE /\ ready' = Tail(ready)
               /\ UNCHANGED <<disc, joiners>>
       /\ ev' = Event("AsyncConnection._run", r.st, "", 0)
    /\ UNCHANGED <<host, port, ssl, connected, reader, writer, opening, opened,
                   closes, transport, hpos, nsent>>

ConnInitAll ==
    /\ BaseInit
    /\ BotIdle
    /\ ConnInit
    /\ WaitInit
    /\ ClientIdle
    /\ TableIdle
    /\ DictIdle
    /\ PureIdle
    /\ ready = <<>>
    /\ ev = Event("__init__", "ok", "", 0)

ConnNext ==
    \/ AsyncConnection_connect /\ UNCHANGED <<botVars, waitVars, clientVars, tableVars, dictVars, pureVars>>
    \/ AsyncConnection_connect_resume /\ UNCHANGED <<botVars, waitVars, clientVars, tableVars, dictVars, pureVars>>
    \/ AsyncConnection_connect_refused /\ UNCHANGED <<botVars, waitVars, clientVars, tableVars, dictVars, pureVars>>
    \/ \E h \in Handlers : AsyncConnection_send(h) /\ UNCHANGED <<botVars, waitVars, clientVars, tableVars, dictVars, pureVars>>
    \/ AsyncConnection_disconnect /\ UNCHANGED <<botVars, waitVars, clientVars, tableVars, dictVars, pureVars>>
    \/ AsyncConnection_disconnect_resume /\ UNCHANGED <<botVars, waitVars, clientVars, tableVars, dictVars, pureVars>>
    \/ AsyncConnection_run /\ UNCHANGED <<botVars, waitVars, clientVars, tableVars, dictVars, pureVars>>

SpecConn == ConnInitAll /\ [][ConnNext]_vars

----------------------------------------------------------------------------
(* Client: trigger, _run_callback and wait_for.  Specification: SpecWait.  *)
(*                                                                         *)
(* A handler task awaits self.wait_for(command, timeout=..., **kwargs).    *)
(* Lines of that command arrive; the protocol hands each to handle, which  *)
(* calls trigger, which creates one _run_callback task for each callback   *)
(* in the table.  The loop runs what is ready in order: the handle of a    *)
(* read event, the tasks, the done callbacks of the Future (remove first,  *)
(* added by wait_for; then the one added by whoever awaits it), the timer. *)

Dispatched == 1..MaxDispatched

\* the text of dispatched message k
WaitMsgText(k) == IF k = 1 THEN "goodbye" ELSE "Hello"

\* Validator(**kwargs) of the wait, called with the arguments of message k
Validator(k) == equality("hello", FALSE, WaitMsgText(k))

\* list.remove(x): the first occurrence is removed
RECURSIVE list_remove(_, _)
list_remove(l, x) ==
    IF l = <<>> THEN l
    ELSE IF Head(l) = x THEN Tail(l)
    ELSE <<Head(l)>> \o list_remove(Tail(l), x)

Range(l) == {l[i] : i \in 1..Len(l)}

\* a waiter that sets the result whatever the state of the Future
Mut_waiter(f, k) == [state |-> "result", result |-> k]

\* waiter(*args) of wait_for, called with the arguments of message k
waiter(f, k) == IF f.state # "pending" THEN f ELSE [state |-> "result", result |-> k]

\* a remove that leaves the callback in the table
Mut_deregister(l, cb) == l

\* Client.deregister
deregister(l, cb) == list_remove(l, cb)

\* the done callbacks of the Future, in the order they were added
done_callbacks(w) ==
    <<<<"remove", 0>>>> \o
    (IF w.st # "waiting" THEN <<>>
     ELSE IF w.timed THEN <<<<"_release_waiter", 0>>>>
     ELSE <<<<"_wakeup", 0>>>>)

\* a trigger that takes the callbacks of ALL first
Mut_trigger(k) ==
    LET cbs == all_callbacks \o callbacks
    IN  [i \in 1..Len(cbs) |-> <<cbs[i], k>>]

\* trigger(command, *args) for message k: a task for each callback of
\* self.callbacks[command] + self.callbacks[constants.ALL]
trigger(k) ==
    LET cbs == callbacks \o all_callbacks
    IN  [i \in 1..Len(cbs) |-> <<cbs[i], k>>]

\* await self.wait_for(command, timeout=..., **kwargs)
wait_for ==
    /\ wt.st = "none"
    /\ \E timed \in BOOLEAN :
         /\ wt' = [st |-> "waiting", timed |-> timed, since |-> ndisp]
         /\ timer' = IF timed THEN "armed" ELSE "none"
    /\ fut' = [state |-> "pending", result |-> 0]
    /\ callbacks' = Append(callbacks, "waiter")
    /\ ev' = Event("wait_for", "suspended", "", 0)
    /\ UNCHANGED <<baseVars, ready, botVars, connVars, ndisp, invoked>>

\* the transport has a chunk of n lines to be read; g is the place in the
\* chunk of a line that is not valid in self.encoding (0: there is none)
read_ready ==
    /\ \A i \in 1..Len(ready) : ready[i][1] # "data_received"
    /\ \E n \in 1..2, g \in 0..2 :
         /\ g <= n
         /\ ndisp + n <= MaxDispatched
         /\ ready' = Append(ready, <<"data_received", n, g>>)
    /\ ev' = Event("read_ready", "ok", "", 0)
    /\ UNCHANGED <<baseVars, botVars, connVars, waitVars>>

\* the lines of a chunk of n lines that handle parses and passes to trigger:
\* the for loop of data_received ends at the line (g) whose decode raises
handled(n, g) == IF g = 0 THEN n ELSE g - 1

\* IRCProtocol.data_received: handle, and so trigger, for each line of the
\* chunk; ev.w counts the lines after the one that raised, which are dropped
Client_data_received ==
    /\ ready # <<>> /\ Head(ready)[1] = "data_received"
    /\ LET n == Head(ready)[2]
           g == Head(ready)[3]
           d == handled(n, g)
       IN
       /\ ndisp' = ndisp + d
       /\ ready' = Tail(ready) \o (IF d > 0 THEN trigger(ndisp + 1) ELSE <<>>)
                   \o (IF d > 1 THEN trigger(ndisp + 2) ELSE <<>>)
       /\ ev' = IF g = 0
                THEN Event("data_received", "ok", "", 0)
                ELSE Event("data_received", "UnicodeDecodeError", "", n - g)
    /\ UNCHANGED <<baseVars, botVars, connVars, callbacks, fut, wt, timer, invoked>>

\* _run_callback for a callback registered with on(): nothing to send
run_callback_on ==
    /\ ready # <<>> /\ Head(ready)[1] = "on"
    /\ ready' = Tail(ready)
    /\ ev' = Event("_run_callback", "on", "", Head(ready)[2])
    /\ UNCHANGED <<baseVars, botVars, connVars, waitVars>>

\* _run_callback for the callback of wait_for: the Callback calls waiter if
\* its Validator accepts the arguments
run_callback_waiter ==
    /\ ready # <<>> /\ Head(ready)[1] = "waiter"
    /\ LET k == Head(ready)[2] IN
       IF Validator(k)
       THEN /\ fut' = waiter(fut, k)
            /\ invoked' = Append(invoked, k)
            /\ ready' = Tail(ready) \o
                        (IF fut'.state # fut.state THEN done_callbacks(wt) ELSE <<>>)
            /\ ev' = Event("_run_callback", "waiter", "", k)
       ELSE /\ ready' = Tail(ready)
            /\ ev' = Event("_run_callback", "rejected", "", k)
            /\ UNCHANGED <<fut, invoked>>
    /\ UNCHANGED <<baseVars, botVars, connVars, callbacks, wt, timer, ndisp>>

\* remove(future), the done callback wait_for added
remove ==
    /\ ready # <<>> /\ Head(ready)[1] = "remove"
    /\ ready' = Tail(ready)
    /\ callbacks' = deregister(callbacks, "waiter")
    /\ ev' = Event("remove", IF "waiter" \in Range(callbacks) THEN "ok" ELSE "ValueError", "", 0)
    /\ UNCHANGED <<baseVars, botVars, connVars, fut, wt, timer, ndisp, invoked>>

\* the timeout of asyncio.wait_for elapses
timer_fires ==
    /\ timer = "armed"
    /\ timer' = "fired"
    /\ ready' = Append(ready, <<"_release_waiter", 0>>)
    /\ ev' = Event("timer", "fired", "", 0)
    /\ UNCHANGED <<baseVars, botVars, connVars, callbacks, fut, wt, ndisp, invoked>>

\* _release_waiter of asyncio.wait_for, called by the timer or as a done
\* callback of the Future: the awaiting task is woken, once
release_waiter ==
    /\ ready # <<>> /\ Head(ready)[1] = "_release_waiter"
    /\ IF wt.st = "waiting"
       THEN /\ wt' = [wt EXCEPT !.st = "released"]
            /\ ready' = Append(Tail(ready), <<"_wakeup", 0>>)
       ELSE /\ ready' = Tail(ready)
            /\ UNCHANGED wt
    /\ ev' = Event("_release_waiter", "ok", "", 0)
    /\ UNCHANGED <<baseVars, botVars, connVars, callbacks, fut, timer, ndisp, invoked>>

\* the awaiting task goes on: the result of the Future is returned; or, the
\* timeout elapsed first, the Future is cancelled and TimeoutError raised
wakeup ==
    /\ ready # <<>> /\ Head(ready)[1] = "_wakeup"
    /\ IF fut.state = "result"
       THEN /\ wt' = [wt EXCEPT !.st = "returned"]
            /\ ready' = Tail(ready)
            /\ ev' = Event("wait_for", "returned", "", fut.result)
            /\ UNCHANGED fut
       ELSE /\ wt' = [wt EXCEPT !.st = "TimeoutError"]
            /\ fut' = [fut EXCEPT !.state = "cancelled"]
            /\ ready' = Tail(ready) \o done_callbacks(wt')
            /\ ev' = Event("wait_for", "TimeoutError", "", 0)
    /\ timer' = IF timer = "none" THEN "none" ELSE "cancelled"
    /\ UNCHANGED <<baseVars, botVars, connVars, callbacks, ndisp, invoked>>

WaitInitAll ==
    /\ BaseInit
    /\ BotIdle
    /\ ConnInit
    /\ WaitInit
    /\ ClientIdle
    /\ TableIdle
    /\ DictIdle
    /\ PureIdle
    /\ ready = <<>>
    /\ ev = Event("__init__", "ok", "", 0)

WaitNext ==
    \/ wait_for /\ UNCHANGED <<clientVars, tableVars, dictVars, pureVars>>
    \/ read_ready /\ UNCHANGED <<clientVars, tableVars, dictVars, pureVars>>
    \/ Client_data_received /\ UNCHANGED <<clientVars, tableVars, dictVars, pureVars>>
    \/ run_callback_on /\ UNCHANGED <<clientVars, tableVars, dictVars, pureVars>>
    \/ run_callback_waiter /\ UNCHANGED <<clientVars, tableVars, dictVars, pureVars>>
    \/ remove /\ UNCHANGED <<clientVars, tableVars, dictVars, pureVars>>
    \/ timer_fires /\ UNCHANGED <<clientVars, tableVars, dictVars, pureVars>>
    \/ release_waiter /\ UNCHANGED <<clientVars, tableVars, dictVars, pureVars>>
    \/ wakeup /\ UNCHANGED <<clientVars, tableVars, dictVars, pureVars>>

SpecWait == WaitInitAll /\ [][WaitNext]_vars

----------------------------------------------------------------------------
(* Client: connect, disconnect and shutdown on top of AsyncConnection.     *)
(* Specification: SpecClient; SpecClientLive adds that the event loop      *)
(* runs what is ready and that create_connection ends.                     *)
(*                                                                         *)
(* connect and disconnect call trigger with the pseudo-events CONNECTED    *)
(* and DISCONNECTED; events records these calls.  disconnect is called by  *)
(* the application (exc None) or by the task IRCProtocol.connection_lost   *)
(* creates (exc the error of the transport).  shutdown ends with           *)
(* loop.stop(): nothing runs once it is done.                              *)

\* transport.get_extra_info('peername') of transport t
peername(t) == <<"irc.rizon.net", 6660 + t>>

\* the values of exc: None, or the error connection_lost was called with
Excs == {"None", "ConnectionResetError"}

\* the disconnect() call that is made next
NextDisconnect ==
    CHOOSE d \in Disconnects :
        disc[d] = "none" /\ \A e \in Disconnects : e < d => disc[e] # "none"

\* asyncio.Task.all_tasks(), those that are not done
all_tasks ==
    {<<"handler", h>> : h \in {g \in Handlers : hpos[g] < Len(HandlerScript)}}
    \cup {<<"_run", t>> : t \in {u \in Transports : runner[u] \in {"ready", "waiting"}}}
    \cup {<<"disconnect", d>> : d \in {e \in Disconnects : disc[e] \in {"joining", "woken"}}}
    \cup {<<"connect", i>> : i \in 1..opening}
    \cup {<<"shutdown", 0>>}

\* Client.connect: await super().connect(host, port)
Client_connect ==
    /\ sd.st # "done"
    /\ AsyncConnection_connect
    /\ UNCHANGED <<clientVars, tableVars, dictVars, pureVars>>

\* Client.connect goes on: super().connect stores the transport and creates
\* the _run task, then CONNECTED is triggered with the peer of self.transport
Client_connect_resume ==
    /\ sd.st # "done"
    /\ AsyncConnection_connect_resume
    /\ events' = Append(events, <<"CONNECTED", peername(transport')>>)
    /\ UNCHANGED <<dloc, sd, cancelled>>

\* create_connection raises: connect ends with the error, nothing is triggered
Client_connect_refused ==
    /\ sd.st # "done"
    /\ AsyncConnection_connect_refused
    /\ UNCHANGED <<clientVars, tableVars, dictVars, pureVars>>

\* _run_callback: await self.send(i), for handler task h
Client_send(h) ==
    /\ sd.st # "done"
    /\ AsyncConnection_send(h)
    /\ UNCHANGED <<clientVars, tableVars, dictVars, pureVars>>

\* Client.disconnect(exc): peer is read from self.transport (AttributeError
\* if there is none), then await super().disconnect(exc)
Client_disconnect(exc) ==
    /\ sd.st # "done"
    /\ IF transport = 0
       THEN /\ ev.out # "AttributeError"
            /\ ev' = Event("Client.disconnect", "AttributeError", "", 0)
            /\ UNCHANGED <<baseVars, ready, connVars, clientVars>>
       ELSE /\ \E d \in Disconnects : disc[d] = "none"
            /\ dloc' = [dloc EXCEPT ![NextDisconnect] =
                          [peer |-> peername(transport), exc |-> exc]]
            /\ AsyncConnection_disconnect
            /\ UNCHANGED <<events, sd, cancelled>>

\* Client.disconnect goes on after super().disconnect: the transport is set
\* to None, then DISCONNECTED is triggered with peer and exc
Client_disconnect_resume ==
    /\ sd.st # "done"
    /\ ready # <<>> /\ Head(ready)[1] = "disconnect"
    /\ AsyncConnection_disconnect_resume
    /\ events' = Append(events, <<"DISCONNECTED", dloc[Head(ready)[2]].peer,
                                  dloc[Head(ready)[2]].exc>>)
    /\ UNCHANGED <<dloc, sd, cancelled>>

\* the event loop runs a _run task
Client_run ==
    /\ sd.st # "done"
    /\ AsyncConnection_run
    /\ UNCHANGED <<clientVars, tableVars, dictVars, pureVars>>

\* Client.shutdown, which run() calls when it is interrupted after its
\* connect has ended: EXIT is put on the queue and join suspends
Client_shutdown ==
    /\ sd.st = "none"
    /\ opened > 0
    /\ put(EXIT)
    /\ joiners' = Append(joiners, 0)
    /\ sd' = [st |-> "joining", mark |-> nsent]
    /\ ev' = Event("Client.shutdown", "suspended", "", 0)
    /\ UNCHANGED <<baseVars, transport, disc, hpos, nsent, lost, events, dloc,
                   cancelled>>

\* Client.shutdown goes on after join: cancel() is called on every task,
\* then loop.stop()
Client_shutdown_resume ==
    /\ ready # <<>> /\ Head(ready) = <<"shutdown", 0>>
    /\ ready' = Tail(ready)
    /\ cancelled' = all_tasks
    /\ sd' = [sd EXCEPT !.st = "done"]
    /\ ev' = Event("Client.shutdown", "ok", "", 0)
    /\ UNCHANGED <<baseVars, connVars, events, dloc>>

ClientInit ==
    /\ BaseInit
    /\ BotIdle
    /\ ConnInit
    /\ WaitInit
    /\ ClientIdle
    /\ TableIdle
    /\ DictIdle
    /\ PureIdle
    /\ ready = <<>>
    /\ ev = Event("__init__", "ok", "", 0)

ClientNext ==
    \/ Client_connect /\ UNCHANGED <<botVars, waitVars, tableVars, dictVars, pureVars>>
    \/ Client_connect_resume /\ UNCHANGED <<botVars, waitVars, tableVars, dictVars, pureVars>>
    \/ Client_connect_refused /\ UNCHANGED <<botVars, waitVars, tableVars, dictVars, pureVars>>
    \/ \E h \in Handlers : Client_send(h) /\ UNCHANGED <<botVars, waitVars, tableVars, dictVars, pureVars>>
    \/ \E exc \in Excs : Client_disconnect(exc) /\ UNCHANGED <<botVars, waitVars, tableVars, dictVars, pureVars>>
    \/ Client_disconnect_resume /\ UNCHANGED <<botVars, waitVars, tableVars, dictVars, pureVars>>
    \/ Client_run /\ UNCHANGED <<botVars, waitVars, tableVars, dictVars, pureVars>>
    \/ Client_shutdown /\ UNCHANGED <<botVars, waitVars, tableVars, dictVars, pureVars>>
    \/ Client_shutdown_resume /\ UNCHANGED <<botVars, waitVars, tableVars, dictVars, pureVars>>

SpecClient == ClientInit /\ [][ClientNext]_vars

\* the event loop runs every handle that is ready, and create_connection
\* ends; when the application calls connect, disconnect, send or shutdown
\* is up to it
ClientFairness ==
    /\ WF_vars(Client_run /\ UNCHANGED <<botVars, waitVars, tableVars, dictVars, pureVars>>)
    /\ WF_vars(Client_disconnect_resume /\ UNCHANGED <<botVars, waitVars, tableVars, dictVars, pureVars>>)
    /\ WF_vars(Client_shutdown_resume /\ UNCHANGED <<botVars, waitVars, tableVars, dictVars, pureVars>>)
    /\ WF_vars(Client_connect_resume /\ UNCHANGED <<botVars, waitVars, tableVars, dictVars, pureVars>>)

SpecClientLive == SpecClient /\ ClientFairness

-----------------------------------------------------------------------------
(* The table of registered actions.  on() records an action under a        *)
(* command; a received message is dispatched to the set found under its    *)
(* command.  SimpleBot (and BotClient, whose on and trigger read the same)  *)
(* is specified by SpecOn, the Client of chitchat/__init__.py by            *)
(* SpecSynonym.  The actions are registered without requirements.           *)

\* the functions decorated with on()
NumOn == 2

Ons == 1..NumOn

\* the commands SimpleBot is given, as spelled by the caller or the server
BotSpellings == {"privmsg", "Privmsg", "PRIVMSG", "PING"}

\* the commands Client is given: a numeric, its mnemonic, and a command that
\* has no synonym
ReplySpellings == {"001", "RPL_WELCOME", "PING"}

\* str.upper
upper(c) ==
    CASE c = "privmsg" -> "PRIVMSG"
      [] c = "Privmsg" -> "PRIVMSG"
      [] OTHER -> c

\* the key on() stores an action under: map(str.upper, commands)
Mut_on_key(c) == c

on_key(c) == upper(c)

\* the command utils.ircparse returns for a line whose command is spelled c
\* (utils.ircparse is not part of the sources; the message model gives the
\* command of a parsed message as uppercased)
ircparse(c) == upper(c)

\* SimpleBot.on(c)(a): the action is added to self.actions[c.upper()]
Bot_on(c, a) ==
    /\ actions' = [actions EXCEPT ![on_key(c)] = @ \cup {a}]
    /\ regs' = regs \cup {<<c, a>>}
    /\ ev' = Event("on", "ok", c, a)
    /\ UNCHANGED <<fired, icpt, all_callbacks>>

\* SimpleBot.handle(line) for a line whose command is spelled c: parse, then
\* trigger invokes every action of self.actions[command]
Bot_handle(c) ==
    LET command == ircparse(c) IN
    /\ fired' = actions[command]
    /\ ev' = Event("handle", "ok", c, 0)
    /\ UNCHANGED <<actions, regs, icpt, all_callbacks>>

TableInit ==
    /\ BaseInit
    /\ BotIdle
    /\ ConnInit
    /\ WaitInit
    /\ ClientIdle
    /\ TableIdle
    /\ DictIdle
    /\ PureIdle
    /\ ready = <<>>
    /\ ev = Event("__init__", "ok", "", 0)

OnNext ==
    \/ \E c \in BotSpellings, a \in Ons : Bot_on(c, a) /\ UNCHANGED <<baseVars, ready, botVars, connVars, waitVars, clientVars, dictVars, pureVars>>
    \/ \E c \in BotSpellings : Bot_handle(c) /\ UNCHANGED <<baseVars, ready, botVars, connVars, waitVars, clientVars, dictVars, pureVars>>

SpecOn == TableInit /\ [][OnNext]_vars

\* irc.REPLIES (the module that defines it is not part of the sources): the
\* synonym map from a numeric to the mnemonic it stands for
REPLIES == [c \in {"001"} |-> "RPL_WELCOME"]

\* irc.REPLIES.get(c): None ("") for a command that is not a key
REPLIES_get(c) == IF c \in DOMAIN REPLIES THEN REPLIES[c] ELSE ""

\* Client.on(c)(a): the action is added to self.actions[c]
Client_on(c, a) ==
    /\ actions' = [actions EXCEPT ![c] = @ \cup {a}]
    /\ regs' = regs \cup {<<c, a>>}
    /\ ev' = Event("on", "ok", c, a)
    /\ UNCHANGED <<fired, icpt, all_callbacks>>

\* Client.trigger(message) for a message whose command is c.  actions is the
\* set stored in the table, and |= updates that set in place.
Client_trigger(c) ==
    LET synonym == REPLIES_get(c)
        found == IF synonym # "" THEN actions[c] \cup actions[synonym]
                 ELSE actions[c]
    IN
    /\ actions' = [actions EXCEPT ![c] = found]
    /\ fired' = found
    /\ ev' = Event("trigger", "ok", c, 0)
    /\ UNCHANGED <<regs, icpt, all_callbacks>>

SynonymNext ==
    \/ \E c \in ReplySpellings, a \in Ons : Client_on(c, a) /\ UNCHANGED <<baseVars, ready, botVars, connVars, waitVars, clientVars, dictVars, pureVars>>
    \/ \E c \in ReplySpellings : Client_trigger(c) /\ UNCHANGED <<baseVars, ready, botVars, connVars, waitVars, clientVars, dictVars, pureVars>>

SpecSynonym == TableInit /\ [][SynonymNext]_vars

-----------------------------------------------------------------------------
(* Client.register, deregister and trigger (chitchat/client.py), for the    *)
(* callbacks of one command and those of ALL.  Specifications:              *)
(* SpecRegister, SpecTrigger.  The callback                                 *)
(* registered by on() is in the table from the start; the application       *)
(* registers and deregisters callbacks, messages of the command are         *)
(* dispatched, and the loop runs the tasks trigger created.                 *)

\* the length of self.callbacks[command]
MaxCallbacks == 3

\* the messages of the command that are dispatched
MaxTriggered == 2

\* the Callback objects the application registers
RegCallbacks == {"on", "plugin"}

\* Client.register(command, cb): self.callbacks[command].append(cb)
Client_register(cb) ==
    /\ Len(callbacks) < MaxCallbacks
    /\ callbacks' = Append(callbacks, cb)
    /\ ev' = Event("register", "ok", cb, 0)
    /\ UNCHANGED <<baseVars, ready, botVars, connVars, fut, wt, timer, ndisp, invoked>>

\* the length of self.callbacks[constants.ALL]
MaxAll == 2

\* Client.register(constants.ALL, cb)
Client_register_all(cb) ==
    /\ Len(all_callbacks) < MaxAll
    /\ all_callbacks' = Append(all_callbacks, cb)
    /\ ev' = Event("register", "ok", cb, 1)
    /\ UNCHANGED <<baseVars, ready, botVars, connVars, waitVars, actions, regs, fired,
                   icpt>>

\* Client.deregister(command, cb): self.callbacks[command].remove(cb), which
\* raises ValueError if cb is not in the list
Client_deregister(cb) ==
    /\ IF cb \in Range(callbacks)
       THEN /\ callbacks' = deregister(callbacks, cb)
            /\ ev' = Event("deregister", "ok", cb, 0)
       ELSE /\ ev.out # "ValueError"
            /\ ev' = Event("deregister", "ValueError", cb, 0)
            /\ UNCHANGED callbacks
    /\ UNCHANGED <<baseVars, ready, botVars, connVars, fut, wt, timer, ndisp, invoked>>

\* Client.trigger(command, *args) for the next message: a _run_callback task
\* is created for each entry of the list
Client_trigger_message ==
    /\ ndisp < MaxTriggered
    /\ ndisp' = ndisp + 1
    /\ ready' = ready \o trigger(ndisp + 1)
    /\ ev' = Event("trigger", "ok", "", ndisp + 1)
    /\ UNCHANGED <<baseVars, botVars, connVars, callbacks, fut, wt, timer, invoked>>

\* the loop runs a _run_callback task: the callback is called with the
\* arguments of its message
Client_run_callback ==
    /\ ready # <<>> /\ Head(ready)[1] \in RegCallbacks
    /\ ready' = Tail(ready)
    /\ ev' = Event("_run_callback", Head(ready)[1], "", Head(ready)[2])
    /\ UNCHANGED <<baseVars, botVars, connVars, waitVars>>

RegisterNext ==
    \/ \E cb \in RegCallbacks : Client_register(cb) /\ UNCHANGED <<clientVars, tableVars, dictVars, pureVars>>
    \/ \E cb \in RegCallbacks : Client_deregister(cb) /\ UNCHANGED <<clientVars, tableVars, dictVars, pureVars>>
    \/ Client_trigger_message /\ UNCHANGED <<clientVars, tableVars, dictVars, pureVars>>
    \/ Client_run_callback /\ UNCHANGED <<clientVars, tableVars, dictVars, pureVars>>

SpecRegister == WaitInitAll /\ [][RegisterNext]_vars

\* callbacks are registered under the command and under ALL while messages
\* are dispatched
TriggerNext ==
    \/ \E cb \in RegCallbacks : Client_register(cb) /\ UNCHANGED <<clientVars, tableVars, dictVars, pureVars>>
    \/ \E cb \in RegCallbacks : Client_register_all(cb) /\ UNCHANGED <<clientVars, dictVars, pureVars>>
    \/ Client_trigger_message /\ UNCHANGED <<clientVars, tableVars, dictVars, pureVars>>
    \/ Client_run_callback /\ UNCHANGED <<clientVars, tableVars, dictVars, pureVars>>

SpecTrigger == WaitInitAll /\ [][TriggerNext]_vars

-----------------------------------------------------------------------------
(* structures.CaseInsensitiveDefaultDict.  Specification: SpecDict.  The    *)
(* mapping is built with a default factory (list) or with None, and the     *)
(* application sets, reads, tests and deletes items under keys in any       *)
(* casing, and asks for the length and the keys.                            *)
(* An absent entry of self._dict is written <<>>.  ev records the call, the *)
(* key it was given and the value it returned.                              *)

\* the values the application stores
NumValues == 2

Values == 1..NumValues

\* the value a call of the default factory returns: list()
NewList == 0

\* the default argument of get
Default == -1

\* the keys the application uses
DictKeys == {"PRIVMSG", "privmsg", "Privmsg", "PING", "ping"}

\* str.casefold
casefold(k) ==
    CASE k \in {"PRIVMSG", "privmsg", "Privmsg"} -> "privmsg"
      [] k \in {"PING", "ping"} -> "ping"

\* CaseInsensitiveDefaultDict._transform, for a string key
transform(k) == casefold(k)

\* key in self._dict
present(d, f) == d[f] # <<>>

\* a __setitem__ that keeps the key of an entry that is there
Mut_setitem(d, k, v) ==
    [d EXCEPT ![transform(k)] = <<(IF present(d, transform(k)) THEN d[transform(k)][1] ELSE k), v>>]

\* __setitem__: self._dict[self._transform(key)] = (key, value)
setitem(d, k, v) == [d EXCEPT ![transform(k)] = <<k, v>>]

\* __iter__: the keys as stored with the values
iter(d) == {d[f][1] : f \in {g \in Folded : present(d, g)}}

\* __len__
len(d) == Cardinality({f \in Folded : present(d, f)})

\* a get that goes through __getitem__ and __missing__
Mut_get_dict(d, k) ==
    IF present(d, transform(k)) \/ default_factory = "None" THEN d
    ELSE setitem(d, k, NewList)

\* the mapping after get(key, default): _dict.get does not insert
get_dict(d, k) == d

\* d[key] = value
Dict_setitem(k, v) ==
    /\ dict' = setitem(dict, k, v)
    /\ inserted' = IF present(dict, transform(k)) THEN inserted
                   ELSE [inserted EXCEPT ![transform(k)] = k]
    /\ ev' = Event("setitem", "ok", k, v)
    /\ UNCHANGED default_factory

\* d[key]: __getitem__, and __missing__ for a key that is not there
Dict_getitem(k) ==
    IF present(dict, transform(k))
    THEN /\ ev' = Event("getitem", "ok", k, dict[transform(k)][2])
         /\ UNCHANGED dictVars
    ELSE IF default_factory = "None"
    THEN /\ ev' = Event("getitem", "KeyError", k, 0)
         /\ UNCHANGED dictVars
    ELSE /\ dict' = setitem(dict, k, NewList)
         /\ inserted' = [inserted EXCEPT ![transform(k)] = k]
         /\ ev' = Event("getitem", "ok", k, dict'[transform(k)][2])
         /\ UNCHANGED default_factory

\* del d[key]
Dict_delitem(k) ==
    IF present(dict, transform(k))
    THEN /\ dict' = [dict EXCEPT ![transform(k)] = <<>>]
         /\ inserted' = [inserted EXCEPT ![transform(k)] = ""]
         /\ ev' = Event("delitem", "ok", k, 0)
         /\ UNCHANGED default_factory
    ELSE /\ ev' = Event("delitem", "KeyError", k, 0)
         /\ UNCHANGED dictVars

\* d.get(key, default)
Dict_get(k) ==
    /\ dict' = get_dict(dict, k)
    /\ ev' = Event("get", "ok", k,
                   IF present(dict, transform(k)) THEN dict[transform(k)][2] ELSE Default)
    /\ UNCHANGED <<default_factory, inserted>>

\* key in d.  The class defines no __contains__; the one it inherits from
\* collections.abc.Mapping evaluates self[key] and answers False for a
\* KeyError, True otherwise, so it goes through __getitem__ and __missing__.
\* ev.w is 1 for True and 0 for False.
Dict_contains(k) ==
    IF present(dict, transform(k))
    THEN /\ ev' = Event("contains", "ok", k, 1)
         /\ UNCHANGED dictVars
    ELSE IF default_factory = "None"
    THEN /\ ev' = Event("contains", "ok", k, 0)
         /\ UNCHANGED dictVars
    ELSE /\ dict' = setitem(dict, k, NewList)
         /\ inserted' = [inserted EXCEPT ![transform(k)] = k]
         /\ ev' = Event("contains", "ok", k, 1)
         /\ UNCHANGED default_factory

\* len(d)
Dict_len ==
    /\ ev' = Event("len", "ok", "", len(dict))
    /\ UNCHANGED dictVars

\* iteration over d, to its end; ev.w is the number of keys it yielded
Dict_iter ==
    /\ ev' = Event("iter", "ok", "", Cardinality(iter(dict)))
    /\ UNCHANGED dictVars

\* CaseInsensitiveDefaultDict(default_factory), with list or with None
DictInit ==
    /\ BaseInit
    /\ BotIdle
    /\ ConnInit
    /\ WaitInit
    /\ ClientIdle
    /\ TableIdle
    /\ PureIdle
    /\ dict = [f \in Folded |-> <<>>]
    /\ default_factory \in {"list", "None"}
    /\ inserted = [f \in Folded |-> ""]
    /\ ready = <<>>
    /\ ev = Event("__init__", "ok", "", 0)

DictNext ==
    \/ \E k \in DictKeys, v \in Values : Dict_setitem(k, v) /\ UNCHANGED <<baseVars, ready, botVars, connVars, waitVars, clientVars, tableVars, pureVars>>
    \/ \E k \in DictKeys : Dict_getitem(k) /\ UNCHANGED <<baseVars, ready, botVars, connVars, waitVars, clientVars, tableVars, pureVars>>
    \/ \E k \in DictKeys : Dict_delitem(k) /\ UNCHANGED <<baseVars, ready, botVars, connVars, waitVars, clientVars, tableVars, pureVars>>
    \/ \E k \in DictKeys : Dict_get(k) /\ UNCHANGED <<baseVars, ready, botVars, connVars, waitVars, clientVars, tableVars, pureVars>>
    \/ \E k \in DictKeys : Dict_contains(k) /\ UNCHANGED <<baseVars, ready, botVars, connVars, waitVars, clientVars, tableVars, pureVars>>
    \/ Dict_len /\ UNCHANGED <<baseVars, ready, botVars, connVars, waitVars, clientVars, tableVars, pureVars>>
    \/ Dict_iter /\ UNCHANGED <<baseVars, ready, botVars, connVars, waitVars, clientVars, tableVars, pureVars>>

SpecDict == DictInit /\ [][DictNext]_vars

-----------------------------------------------------------------------------
(* The functions of chitchat/utils.py and chitchat/commands.py.             *)
(* Specification: SpecUtils.  A Python string is the sequence of its        *)
(* characters; None, where a string or nothing is expected, is written as   *)
(* the empty sequence of strings <<>> against <<s>>.  fin holds the name of *)
(* the function and the arguments of a call, fout what the call returned.   *)

\* the length of a line given to ircsplit
MaxLine == 7

\* the characters of a line
Chars == {"c", " ", ":"}

Lines == UNION {[1..n -> Chars] : n \in 0..MaxLine}

Max(S) == CHOOSE x \in S : \A y \in S : y <= x

Min(S) == CHOOSE x \in S : \A y \in S : x <= y

\* the places of s at which sep (of two characters) begins
find(s, sep) == {i \in 1..(Len(s) - 1) : s[i] = sep[1] /\ s[i + 1] = sep[2]}

\* str.rstrip('\r\n')
RECURSIVE rstrip(_)
rstrip(s) ==
    IF s # <<>> /\ s[Len(s)] \in {"\r", "\n"} THEN rstrip(SubSeq(s, 1, Len(s) - 1))
    ELSE s

\* a split at the first occurrence of sep
Mut_rsplit1(s, sep) ==
    IF find(s, sep) = {} THEN <<s>>
    ELSE <<SubSeq(s, 1, Min(find(s, sep)) - 1), SubSeq(s, Min(find(s, sep)) + 2, Len(s))>>

\* str.rsplit(sep, maxsplit=1): a split at the last occurrence of sep, or the
\* string alone
rsplit1(s, sep) ==
    IF find(s, sep) = {} THEN <<s>>
    ELSE <<SubSeq(s, 1, Max(find(s, sep)) - 1), SubSeq(s, Max(find(s, sep)) + 2, Len(s))>>

\* str.split(): the runs of characters that are not spaces
RECURSIVE split(_)
split(s) ==
    IF s = <<>> THEN <<>>
    ELSE IF Head(s) = " " THEN split(Tail(s))
    ELSE LET sp == {i \in 1..Len(s) : s[i] = " "}
             n == IF sp = {} THEN Len(s) + 1 ELSE Min(sp)
         IN <<SubSeq(s, 1, n - 1)>> \o split(SubSeq(s, n, Len(s)))

\* utils.ircsplit(message)
ircsplit(message) ==
    LET parts == rsplit1(rstrip(message), <<" ", ":">>)
        leading == parts[1]
        spaced == IF Len(parts) = 2 THEN <<parts[2]>> ELSE <<>>
        toks == split(leading)
        first == IF toks = <<>> THEN <<>> ELSE Head(toks)
        remaining == IF toks = <<>> THEN <<>> ELSE Tail(toks)
        colon == first # <<>> /\ Head(first) = ":"
        prefix == IF colon THEN Tail(first) ELSE <<>>
        command == IF ~colon THEN first
                   ELSE IF remaining = <<>> THEN <<>> ELSE Head(remaining)
        rest == IF ~colon THEN remaining
                ELSE IF remaining = <<>> THEN <<>> ELSE Tail(remaining)
    IN [prefix |-> prefix, command |-> command, params |-> rest \o spaced]

\* a call of ircsplit
call_ircsplit ==
    /\ fin.f = "ircsplit" /\ ev.op = "__init__"
    /\ fout' = ircsplit(fin.line)
    /\ ev' = Event("ircsplit", "ok", "", 0)
    /\ UNCHANGED <<fin, ISUPPORT>>

\* the length of a prefix given to prefixsplit
MaxPrefix == 5

\* the characters of a prefix
PrefixChars == {"a", "!", "@"}

Prefixes == UNION {[1..n -> PrefixChars] : n \in 0..MaxPrefix}

\* the places of s that hold the character c
places(s, c) == {i \in 1..Len(s) : s[i] = c}

\* str.split(c, maxsplit=1): a split at the first c, or the string alone
split1(s, c) ==
    IF places(s, c) = {} THEN <<s>>
    ELSE <<SubSeq(s, 1, Min(places(s, c)) - 1), SubSeq(s, Min(places(s, c)) + 1, Len(s))>>

\* a prefixsplit that takes what follows '!' as the user when there is no
\* '@', and what precedes '@' as the nick when there is no '!'
Mut_prefixsplit(prefix) ==
    LET b == split1(prefix, "!")
        rest == IF Len(b) = 2 THEN b[2] ELSE prefix
        a == split1(rest, "@")
    IN IF prefix = <<>> THEN [nick |-> <<>>, user |-> <<>>, host |-> <<>>]
       ELSE IF Len(b) = 2
       THEN [nick |-> b[1], user |-> a[1], host |-> IF Len(a) = 2 THEN a[2] ELSE <<>>]
       ELSE IF Len(a) = 2 THEN [nick |-> a[1], user |-> <<>>, host |-> a[2]]
       ELSE [nick |-> <<>>, user |-> <<>>, host |-> prefix]

\* utils.prefixsplit(prefix)
prefixsplit(prefix) ==
    LET b == split1(prefix, "!")
        nick == IF Len(b) = 2 THEN b[1] ELSE <<>>
        rest == IF Len(b) = 2 THEN b[2] ELSE prefix
        a == split1(rest, "@")
    IN IF prefix = <<>> THEN [nick |-> <<>>, user |-> <<>>, host |-> <<>>]
       ELSE IF Len(a) = 2 THEN [nick |-> nick, user |-> a[1], host |-> a[2]]
       ELSE [nick |-> nick, user |-> <<>>,
             host |-> IF nick = <<>> THEN rest ELSE <<>>]

\* a call of prefixsplit
call_prefixsplit ==
    /\ fin.f = "prefixsplit" /\ ev.op = "__init__"
    /\ fout' = prefixsplit(fin.prefix)
    /\ ev' = Event("prefixsplit", "ok", "", 0)
    /\ UNCHANGED <<fin, ISUPPORT>>

\* constants.TOPIC and constants.CRLF (chitchat/constants.py is not part of
\* the sources)
TOPIC == "TOPIC"

CRLF == "\r\n"

\* ' '.join(l), as the sequence of its pieces
RECURSIVE join(_)
join(l) ==
    IF Len(l) <= 1 THEN l
    ELSE <<Head(l), " ">> \o join(Tail(l))

\* bool(spaced): None and the empty string are false
truthy(spaced) == spaced # <<>> /\ spaced[1] # ""

\* an ircjoin that tests spaced against None
Mut_ircjoin(args, spaced) ==
    join(args) \o (IF spaced # <<>> THEN <<" ", ":", spaced[1]>> ELSE <<>>) \o <<CRLF>>

\* utils.ircjoin(*args, spaced=spaced): a '{}' for each argument, ':{}' as
\* well if spaced, joined by spaces and formatted, then CRLF
ircjoin(args, spaced) ==
    join(args) \o (IF truthy(spaced) THEN <<" ", ":", spaced[1]>> ELSE <<>>) \o <<CRLF>>

\* commands.topic(channel, topic=None)
topic(channel, t) == ircjoin(<<TOPIC, channel>>, t)

\* a call of topic
call_topic ==
    /\ fin.f = "topic" /\ ev.op = "__init__"
    /\ fout' = topic(fin.channel, fin.topic)
    /\ ev' = Event("topic", "ok", "", 0)
    /\ UNCHANGED <<fin, ISUPPORT>>

\* the channels and the topics given to topic: None, '', or a text
Channels == {"#chitchat", "&local"}

Topics == {<<>>, <<"">>, <<"new topic">>}

\* the calls the application makes
UtilsCalls ==
    {[f |-> "ircsplit", line |-> l] : l \in Lines}
    \cup {[f |-> "prefixsplit", prefix |-> p] : p \in Prefixes}
    \cup {[f |-> "topic", channel |-> c, topic |-> t] : c \in Channels, t \in Topics}

UtilsInit ==
    /\ BaseInit
    /\ BotIdle
    /\ ConnInit
    /\ WaitInit
    /\ ClientIdle
    /\ TableIdle
    /\ DictIdle
    /\ fin \in UtilsCalls
    /\ fout = <<>>
    /\ ISUPPORT = ISUPPORT0
    /\ ready = <<>>
    /\ ev = Event("__init__", "ok", "", 0)

UtilsNext ==
    \/ call_ircsplit /\ UNCHANGED <<baseVars, ready, botVars, connVars, waitVars, clientVars, tableVars, dictVars>>
    \/ call_prefixsplit /\ UNCHANGED <<baseVars, ready, botVars, connVars, waitVars, clientVars, tableVars, dictVars>>
    \/ call_topic /\ UNCHANGED <<baseVars, ready, botVars, connVars, waitVars, clientVars, tableVars, dictVars>>

SpecUtils == UtilsInit /\ [][UtilsNext]_vars

-----------------------------------------------------------------------------
(* irc.supported and irc.add_support (chitchat/irc.py), with the parsing    *)
(* rules of chitchat/irc/isupport.py.  Specification: SpecISupport.  A      *)
(* token of the 005 message is the sequence of its pieces: the name of the  *)
(* feature, then "=" and the characters of the value.  A parsed value is    *)
(* tagged with its Python type.  A dict is a function.                      *)

\* the tokens of a 005 message, between the target and the trailing text
MaxTokens == 3

Tokens ==
    { <<"CHANLIMIT", "=", "#", ":", "7", "5">>,
      <<"CHANLIMIT", "=", "#", "&", ":", "5", ",", "+", ":">>,
      <<"CHANNELLEN", "=", "5", "0">>,
      <<"PREFIX", "=", "(", "o", "v", ")", "@", "+">>,
      <<"SAFELIST">>,
      <<"WHOX", "=", "1", "2">> }

\* message.params: the target, the tokens, the trailing text
ParamLists ==
    {<<"nick">> \o ts \o <<"are supported by this server">> :
        ts \in UNION {[1..n -> Tokens] : n \in 0..MaxTokens}}

\* str.partition('='): what precedes the first '=', the '=' if there is
\* one, and what follows it
partition(token) ==
    IF places(token, "=") = {} THEN <<token, <<>>, <<>>>>
    ELSE <<SubSeq(token, 1, Min(places(token, "=")) - 1), <<"=">>,
           SubSeq(token, Min(places(token, "=")) + 1, Len(token))>>

\* str.split(c)
RECURSIVE splitc(_, _)
splitc(s, c) ==
    IF places(s, c) = {} THEN <<s>>
    ELSE <<SubSeq(s, 1, Min(places(s, c)) - 1)>>
         \o splitc(SubSeq(s, Min(places(s, c)) + 1, Len(s)), c)

\* the value of a decimal digit
digit(c) ==
    CASE c = "0" -> 0 [] c = "1" -> 1 [] c = "2" -> 2 [] c = "3" -> 3 [] c = "4" -> 4
      [] c = "5" -> 5 [] c = "6" -> 6 [] c = "7" -> 7 [] c = "8" -> 8 [] c = "9" -> 9

\* int(s), for a string of digits
RECURSIVE int(_)
int(s) == IF s = <<>> THEN 0 ELSE 10 * int(SubSeq(s, 1, Len(s) - 1)) + digit(s[Len(s)])

\* dict.update(m)
update(d, m) == [k \in DOMAIN d \cup DOMAIN m |-> IF k \in DOMAIN m THEN m[k] ELSE d[k]]

EmptyDict == [k \in {} |-> 0]

\* split_at_colon_iter(values): each character before the colon is mapped to
\* the number after it, 0 if there is none
RECURSIVE colon_iter(_)
colon_iter(vs) ==
    IF vs = <<>> THEN EmptyDict
    ELSE LET pn == splitc(vs[Len(vs)], ":")
             n == IF pn[2] # <<>> THEN int(pn[2]) ELSE 0
         IN update(colon_iter(SubSeq(vs, 1, Len(vs) - 1)),
                   [c \in {pn[1][i] : i \in 1..Len(pn[1])} |-> n])

split_at_colon_iter(values) == colon_iter(splitc(values, ","))

\* split_at_colon(values): what precedes the colon is mapped to the number
\* after it, 0 if there is none
RECURSIVE colon_each(_)
colon_each(vs) ==
    IF vs = <<>> THEN EmptyDict
    ELSE LET pn == splitc(vs[Len(vs)], ":")
             n == IF pn[2] # <<>> THEN int(pn[2]) ELSE 0
         IN update(colon_each(SubSeq(vs, 1, Len(vs) - 1)), [c \in {pn[1]} |-> n])

split_at_colon(values) == colon_each(splitc(values, ","))

\* a prefix rule that pairs the modes with the symbols from the end
Mut_isupport_prefix(values) ==
    LET mp == splitc(values, ")")
        modes == Tail(mp[1])
        n == IF Len(modes) < Len(mp[2]) THEN Len(modes) ELSE Len(mp[2])
    IN [m \in {modes[i] : i \in 1..n} |->
          mp[2][n + 1 - Max({i \in 1..n : modes[i] = m})]]

\* prefix(values): dict(zip(modes[1:], prefixes)) of '(modes)prefixes'
isupport_prefix(values) ==
    LET mp == splitc(values, ")")
        modes == Tail(mp[1])
        n == IF Len(modes) < Len(mp[2]) THEN Len(modes) ELSE Len(mp[2])
    IN [m \in {modes[i] : i \in 1..n} |->
          mp[2][Max({i \in 1..n : modes[i] = m})]]

\* func(params), for a rule of the table that is a function
apply(rule, value) ==
    CASE rule.name = "int" -> [t |-> "int", v |-> int(value)]
      [] rule.name = "str" -> [t |-> "str", v |-> value]
      [] rule.name = "list" -> [t |-> "list", v |-> value]
      [] rule.name = "split_at_colon_iter" -> [t |-> "dict", v |-> split_at_colon_iter(value)]
      [] rule.name = "split_at_colon" -> [t |-> "dict", v |-> split_at_colon(value)]
      [] rule.name = "prefix" -> [t |-> "dict", v |-> isupport_prefix(value)]

None == [t |-> "None"]

\* ISUPPORT.get(feature)
ISUPPORT_get(table, feature) ==
    IF feature \in DOMAIN table THEN table[feature] ELSE NoRule

\* the entry of one token: None without a value, the rule of the feature
\* applied to the value, or list(value) where the table has no rule
token_entry(table, token) ==
    LET feature == partition(token)[1][1]
        params == partition(token)[3]
        func == ISUPPORT_get(table, feature)
    IN [k \in {feature} |->
          IF params = <<>> THEN None
          ELSE IF func.kind = "function" THEN apply(func, params)
          ELSE IF func.kind = "dict" THEN [t |-> "TypeError"]
          ELSE [t |-> "list", v |-> params]]

\* the for loop of supported over the tokens
RECURSIVE features_of(_, _)
features_of(table, tokens) ==
    IF tokens = <<>> THEN EmptyDict
    ELSE update(features_of(table, SubSeq(tokens, 1, Len(tokens) - 1)),
                token_entry(table, tokens[Len(tokens)]))

\* irc.supported(message), for message.params: _, *tokens, _ = params
supported(table, params) == features_of(table, SubSeq(params, 2, Len(params) - 1))

\* a call of supported, for the message the server has sent
call_supported ==
    /\ fout' = supported(ISUPPORT, fin.params)
    /\ ev' = Event("supported", "ok", "", 0)
    /\ UNCHANGED <<fin, ISUPPORT>>

\* the mappings given to add_support as other, and the keyword arguments
OtherMaps == {[k \in {"WHOX"} |-> Rule("int")]}

KeywordMaps == {[k \in {"CHANNELLEN"} |-> Rule("str")]}

\* an add_support that merges the mapping
Mut_add_support(table, other, kwargs) ==
    update(update(table, IF other = <<>> THEN EmptyDict ELSE other[1]), kwargs)

\* irc.add_support(other, **kwargs): ISUPPORT.update(other=other, **kwargs),
\* in which other is a keyword argument of update, that is, an entry
add_support(table, other, kwargs) ==
    update(update(table, [k \in {"other"} |->
                            IF other = <<>> THEN NoRule
                            ELSE [kind |-> "dict", entries |-> other[1]]]),
           kwargs)

\* a call of add_support
call_add_support ==
    /\ \E other \in {<<>>} \cup {<<m>> : m \in OtherMaps}, kwargs \in {EmptyDict} \cup KeywordMaps :
         /\ fin' = [fin EXCEPT !.other = other, !.kwargs = kwargs]
         /\ ISUPPORT' = add_support(ISUPPORT, other, kwargs)
    /\ ev' = Event("add_support", "ok", "", 0)
    /\ UNCHANGED fout

ISupportInit ==
    /\ BaseInit
    /\ BotIdle
    /\ ConnInit
    /\ WaitInit
    /\ ClientIdle
    /\ TableIdle
    /\ DictIdle
    /\ \E params \in ParamLists :
         fin = [f |-> "supported", params |-> params, other |-> <<>>, kwargs |-> EmptyDict]
    /\ fout = <<>>
    /\ ISUPPORT = ISUPPORT0
    /\ ready = <<>>
    /\ ev = Event("__init__", "ok", "", 0)

ISupportNext ==
    \/ call_supported /\ UNCHANGED <<baseVars, ready, botVars, connVars, waitVars, clientVars, tableVars, dictVars>>
    \/ call_add_support /\ UNCHANGED <<baseVars, ready, botVars, connVars, waitVars, clientVars, tableVars, dictVars>>

SpecISupport == ISupportInit /\ [][ISupportNext]_vars

-----------------------------------------------------------------------------
(* SimpleBot.intercept (chitchat/bot.py): a handler task enters              *)
(* `with bot.intercept(command, *commands, timeout=...) as future`, awaits   *)
(* the future and leaves the block.  Specification: SpecIntercept.           *)
(*                                                                           *)
(* intercept is a generator under contextlib.contextmanager: entering the    *)
(* block runs it to `yield from task`, which yields the task; leaving the    *)
(* block resumes it there, and its finally clause runs.  The action holds    *)
(* no requirements.  run() is a task of the loop like the others: it         *)
(* becomes ready when lines arrive and dispatches all the lines buffered.    *)
(* A message is named by its rank among the messages received.               *)

\* the commands intercept is called with: at most this many
MaxCommands == 3

\* the lines the server sends
MaxReceived == 2

\* the commands as the caller may spell them
InterceptSpellings == {"PRIVMSG", "privmsg", "PING"}

CommandLists == UNION {[1..n -> InterceptSpellings] : n \in 1..MaxCommands}

\* the commands of the lines the server sends
ReceivedCommands == {"PRIVMSG", "PING"}

\* for command in map(str.upper, commands): self.actions[command].add(action)
RECURSIVE add_action(_, _)
add_action(table, commands) ==
    IF commands = <<>> THEN table
    ELSE add_action([table EXCEPT ![upper(Head(commands))] = @ \cup {Interceptor}],
                    Tail(commands))

\* a finally clause that removes with set.discard
RECURSIVE Mut_remove_action(_, _)
Mut_remove_action(table, commands) ==
    IF commands = <<>> THEN [table |-> table, exc |-> "None"]
    ELSE Mut_remove_action([table EXCEPT ![upper(Head(commands))] = @ \ {Interceptor}],
                           Tail(commands))

\* finally: for command in map(str.upper, commands):
\*              self.actions[command].remove(action)
\* set.remove raises KeyError for an element that is not in the set, which
\* ends the loop
RECURSIVE remove_action(_, _)
remove_action(table, commands) ==
    IF commands = <<>> THEN [table |-> table, exc |-> "None"]
    ELSE IF Interceptor \notin table[upper(Head(commands))]
    THEN [table |-> table, exc |-> "KeyError"]
    ELSE remove_action([table EXCEPT ![upper(Head(commands))] = @ \ {Interceptor}],
                       Tail(commands))

\* with self.intercept(*commands, timeout=...): the action is added, and the
\* task that waits in queue.get() is created and handed to the block
SimpleBot_intercept(commands, timeout) ==
    /\ icpt.st = "none"
    /\ actions' = add_action(actions, commands)
    /\ icpt' = [icpt EXCEPT !.st = "waiting", !.commands = commands,
                            !.timeout = timeout, !.task = "waiting"]
    /\ ev' = Event("intercept", "entered", "", 0)
    /\ UNCHANGED <<ready, regs, fired, all_callbacks>>

\* lines arrive, their commands being cs: run(), suspended in readline,
\* becomes ready
intercept_data_received(cs) ==
    /\ icpt.st # "none"
    /\ nread + rbuf + Len(cs) <= MaxReceived
    /\ rbuf' = rbuf + Len(cs)
    /\ ready' = Append(ready, <<"run", cs>>)
    /\ ev' = Event("data_received", "ok", "", Len(cs))
    /\ UNCHANGED <<is_async, garbled, registered, nread, eof, rl, inst, tableVars>>

\* the tasks trigger creates for the messages received after the n-th,
\* whose commands are cs: ensure_future(action.coro(message)) for the action
\* of the interceptor, if it is in self.actions[command]
RECURSIVE tasks_of(_, _, _)
tasks_of(table, cs, n) ==
    IF cs = <<>> THEN <<>>
    ELSE (IF Interceptor \in table[ircparse(Head(cs))]
          THEN <<<<"interceptor", n + 1>>>> ELSE <<>>)
         \o tasks_of(table, Tail(cs), n + 1)

\* run() goes on: every buffered line is read, handled and dispatched
\* before run() suspends again
intercept_run ==
    /\ ready # <<>> /\ Head(ready)[1] = "run"
    /\ LET cs == Head(ready)[2] IN
       /\ ready' = Tail(ready) \o tasks_of(actions, cs, nread)
       /\ nread' = nread + Len(cs)
       /\ rbuf' = rbuf - Len(cs)
       /\ ev' = Event("run", "dispatched", "", Len(cs))
    /\ UNCHANGED <<is_async, garbled, registered, eof, rl, inst, tableVars>>

\* the task of interceptor(message): nothing if the queue is full, else the
\* message is put, which wakes the task suspended in queue.get()
interceptor ==
    /\ ready # <<>> /\ Head(ready)[1] = "interceptor"
    /\ LET m == Head(ready)[2] IN
       IF Len(icpt.queue) = 1
       THEN /\ ready' = Tail(ready)
            /\ ev' = Event("interceptor", "full", "", m)
            /\ UNCHANGED icpt
       ELSE /\ icpt' = [icpt EXCEPT !.queue = Append(@, m), !.puts = @ + 1,
                          !.task = IF @ = "waiting" THEN "woken" ELSE @]
            /\ ready' = IF icpt.task = "waiting"
                        THEN Append(Tail(ready), <<"get", 0>>) ELSE Tail(ready)
            /\ ev' = Event("interceptor", "put", "", m)
    /\ UNCHANGED <<actions, regs, fired, all_callbacks>>

\* the callbacks between the end of queue.get() and the task that awaits the
\* future: none without a timeout, where wait_for awaits get() itself; with
\* a timeout get() runs in a task of its own, whose end releases the waiter
\* of wait_for, which then returns
hops(timeout) == IF timeout THEN 2 ELSE 0

\* queue.get() goes on: the message is taken from the queue
intercept_get ==
    /\ ready # <<>> /\ Head(ready)[1] = "get"
    /\ icpt' = [icpt EXCEPT !.queue = Tail(@), !.result = Head(icpt.queue),
                            !.task = "done"]
    /\ ready' = Append(Tail(ready), <<"wake", hops(icpt.timeout)>>)
    /\ ev' = Event("get", "ok", "", Head(icpt.queue))
    /\ UNCHANGED <<actions, regs, fired, all_callbacks>>

\* the timeout of wait_for expires before a message was put: get() is
\* cancelled and the task ends with TimeoutError
intercept_timeout ==
    /\ icpt.st = "waiting" /\ icpt.timeout /\ icpt.task = "waiting"
    /\ icpt' = [icpt EXCEPT !.task = "TimeoutError"]
    /\ ready' = Append(ready, <<"wake", 0>>)
    /\ ev' = Event("wait_for", "TimeoutError", "", 0)
    /\ UNCHANGED <<actions, regs, fired, all_callbacks>>

\* a callback on the way to the task that awaits the future
intercept_wake ==
    /\ ready # <<>> /\ Head(ready)[1] = "wake" /\ Head(ready)[2] > 0
    /\ ready' = Append(Tail(ready), <<"wake", Head(ready)[2] - 1>>)
    /\ ev' = Event("wake", "ok", "", 0)
    /\ UNCHANGED tableVars

\* the handler task goes on and leaves the with block: intercept resumes at
\* `yield from task`, the result or TimeoutError of the task comes out, and
\* the finally clause removes the action
intercept_finally ==
    /\ ready # <<>> /\ Head(ready) = <<"wake", 0>>
    /\ ready' = Tail(ready)
    /\ LET r == remove_action(actions, icpt.commands) IN
       /\ actions' = r.table
       /\ icpt' = [icpt EXCEPT !.st = "ended"]
       /\ ev' = Event("intercept",
                      IF r.exc # "None" THEN r.exc
                      ELSE IF icpt.task = "done" THEN "ok" ELSE icpt.task, "", 0)
    /\ UNCHANGED <<regs, fired, all_callbacks>>

InterceptInit ==
    /\ BaseInit
    /\ BotIdle
    /\ ConnInit
    /\ WaitInit
    /\ ClientIdle
    /\ TableIdle
    /\ DictIdle
    /\ PureIdle
    /\ ready = <<>>
    /\ ev = Event("__init__", "ok", "", 0)

InterceptNext ==
    \/ \E commands \in CommandLists, timeout \in BOOLEAN : SimpleBot_intercept(commands, timeout) /\ UNCHANGED <<baseVars, botVars, connVars, waitVars, clientVars, dictVars, pureVars>>
    \/ \E cs \in UNION {[1..n -> ReceivedCommands] : n \in 1..MaxReceived} : intercept_data_received(cs) /\ UNCHANGED <<baseVars, connVars, waitVars, clientVars, dictVars, pureVars>>
    \/ intercept_run /\ UNCHANGED <<baseVars, connVars, waitVars, clientVars, dictVars, pureVars>>
    \/ interceptor /\ UNCHANGED <<baseVars, botVars, connVars, waitVars, clientVars, dictVars, pureVars>>
    \/ intercept_get /\ UNCHANGED <<baseVars, botVars, connVars, waitVars, clientVars, dictVars, pureVars>>
    \/ intercept_timeout /\ UNCHANGED <<baseVars, botVars, connVars, waitVars, clientVars, dictVars, pureVars>>
    \/ intercept_wake /\ UNCHANGED <<baseVars, botVars, connVars, waitVars, clientVars, dictVars, pureVars>>
    \/ intercept_finally /\ UNCHANGED <<baseVars, botVars, connVars, waitVars, clientVars, dictVars, pureVars>>

SpecIntercept == InterceptInit /\ [][InterceptNext]_vars

-----------------------------------------------------------------------------
(* IRCProtocol.data_received (chitchat/connection.py).  Specification:       *)
(* SpecProtocol.  The transport passes the bytes of the stream to            *)
(* data_received in chunks of any length; fin holds the stream and how much  *)
(* of it was passed, fout the buffer of the protocol and the lines passed to *)
(* client.handle, in order.  Bytes are sequences of characters.              *)

\* the length of the stream
MaxStream == 4

\* a byte of a line, carriage return, line feed
StreamBytes == {"a", "\r", "\n"}

Streams == UNION {[1..n -> StreamBytes] : n \in 1..MaxStream}

\* the index of the last item of b that is in set cs, 0 if there is none
last_of(b, cs) == Max({0} \cup {i \in 1..Len(b) : b[i] \in cs})

\* the index of the first item of b that is in set cs, 0 if there is none
first_of(b, cs) ==
    IF \E i \in 1..Len(b) : b[i] \in cs
    THEN Min({i \in 1..Len(b) : b[i] \in cs}) ELSE 0

\* buffer.rsplit(b'\n', maxsplit=1): one item if there is no line feed
rsplit_newline(b) ==
    LET i == last_of(b, {"\n"}) IN
    IF i = 0 THEN <<b>>
    ELSE <<SubSeq(b, 1, i - 1), SubSeq(b, i + 1, Len(b))>>

\* bytes.splitlines(): a line ends at \n, \r or \r\n, the line endings are
\* left out, and nothing follows the last line ending
RECURSIVE splitlines(_)
splitlines(b) ==
    LET i == first_of(b, {"\r", "\n"})
        j == IF i > 0 /\ i < Len(b) /\ b[i] = "\r" /\ b[i + 1] = "\n"
             THEN i + 1 ELSE i
    IN  IF b = <<>> THEN <<>>
        ELSE IF i = 0 THEN <<b>>
        ELSE <<SubSeq(b, 1, i - 1)>> \o splitlines(SubSeq(b, j + 1, Len(b)))

\* data_received(data) with self.buffer = buffer: the buffer it leaves and
\* the lines it passes to client.handle.  Unpacking the one item rsplit
\* returns when there is no line feed raises ValueError, and the method
\* returns.
data_received_of(buffer, data) ==
    LET parts == rsplit_newline(buffer \o data) IN
    IF Len(parts) = 1 THEN [buffer |-> buffer \o data, lines |-> <<>>]
    ELSE [buffer |-> parts[2], lines |-> splitlines(parts[1])]

\* the transport calls data_received with the next n bytes of the stream
IRCProtocol_data_received(n) ==
    /\ fin.f = "data_received"
    /\ fin.pos + n <= Len(fin.stream)
    /\ LET r == data_received_of(fout.buffer,
                                 SubSeq(fin.stream, fin.pos + 1, fin.pos + n))
       IN
       /\ fout' = [buffer |-> r.buffer, handled |-> fout.handled \o r.lines]
       /\ ev' = Event("data_received", "ok", "", Len(r.lines))
    /\ fin' = [fin EXCEPT !.pos = @ + n]
    /\ UNCHANGED ISUPPORT

ProtocolInit ==
    /\ BaseInit
    /\ BotIdle
    /\ ConnInit
    /\ WaitInit
    /\ ClientIdle
    /\ TableIdle
    /\ DictIdle
    /\ ISUPPORT = ISUPPORT0
    /\ \E s \in Streams : fin = [f |-> "data_received", stream |-> s, pos |-> 0]
    /\ fout = [buffer |-> <<>>, handled |-> <<>>]
    /\ ready = <<>>
    /\ ev = Event("__init__", "ok", "", 0)

ProtocolNext ==
    \/ \E n \in 1..MaxStream : IRCProtocol_data_received(n) /\ UNCHANGED <<baseVars, ready, botVars, connVars, waitVars, clientVars, tableVars, dictVars>>

SpecProtocol == ProtocolInit /\ [][ProtocolNext]_vars

-----------------------------------------------------------------------------
(* Client._run_callback (chitchat/client.py): what becomes of the result of *)
(* a callback.  Specification: SpecRunCallback.  fin holds the result the   *)
(* callback returns: None, or a list of items; fout the iterator over it,   *)
(* the items passed to send so far, in order, and the state of the task.    *)
(* An item is named by its place in the list.                               *)

\* the length of the list a callback returns
MaxItems == 3

\* what an item is: a line; an empty string or None; an awaitable that
\* completes; an awaitable that raises TypeError; an awaitable that raises
\* another exception, such as the Timeout of wait_for
ItemKinds == {"line", "empty", "awaitable", "awaitable TypeError", "awaitable Timeout"}

\* the results of a callback: None or a list
Results ==
    {[t |-> "None"]}
    \cup {[t |-> "list", v |-> l] : l \in UNION {[1..n -> ItemKinds] : n \in 0..MaxItems}}

\* result or []
or_empty(result) == IF result.t = "None" THEN <<>> ELSE result.v

\* bool(item)
item_truthy(kind) == kind # "empty"

\* a filter that lets every item through
Mut_filter_none(result) == [i \in 1..Len(or_empty(result)) |-> i]

\* filter(None, result or []): the places of the items that are true, in
\* order
filter_none(result) ==
    SelectSeq([i \in 1..Len(or_empty(result)) |-> i],
              LAMBDA i : item_truthy(result.v[i]))

\* `await i` for an item: a non-awaitable raises TypeError; an awaitable
\* ends as it ends
await_item(kind) ==
    CASE kind \in {"line", "empty"} -> "TypeError"
      [] kind = "awaitable" -> "ok"
      [] kind = "awaitable TypeError" -> "TypeError"
      [] kind = "awaitable Timeout" -> "Timeout"

\* result = await callback(*args); it = filter(None, result or [])
RunCallback_await_callback ==
    /\ fin.f = "_run_callback" /\ fout.st = "created"
    /\ fout' = [fout EXCEPT !.st = "running", !.it = filter_none(fin.result)]
    /\ ev' = Event("_run_callback", "called", "", 0)
    /\ UNCHANGED <<fin, ISUPPORT>>

\* one turn of the for loop: await i, and await self.send(i) if that raises
\* TypeError; any other exception ends the task
RunCallback_next_item ==
    /\ fin.f = "_run_callback" /\ fout.st = "running" /\ fout.it # <<>>
    /\ LET i == Head(fout.it)
           out == await_item(fin.result.v[i])
       IN
       /\ fout' = [fout EXCEPT !.it = Tail(@),
                               !.sent = IF out = "TypeError" THEN Append(@, i) ELSE @,
                               !.st = IF out \in {"ok", "TypeError"} THEN @ ELSE out]
       /\ ev' = Event("_run_callback", out, "", i)
    /\ UNCHANGED <<fin, ISUPPORT>>

\* the iterator is exhausted: return
RunCallback_return ==
    /\ fin.f = "_run_callback" /\ fout.st = "running" /\ fout.it = <<>>
    /\ fout' = [fout EXCEPT !.st = "done"]
    /\ ev' = Event("_run_callback", "ok", "", 0)
    /\ UNCHANGED <<fin, ISUPPORT>>

RunCallbackInit ==
    /\ BaseInit
    /\ BotIdle
    /\ ConnInit
    /\ WaitInit
    /\ ClientIdle
    /\ TableIdle
    /\ DictIdle
    /\ ISUPPORT = ISUPPORT0
    /\ \E result \in Results : fin = [f |-> "_run_callback", result |-> result]
    /\ fout = [st |-> "created", it |-> <<>>, sent |-> <<>>]
    /\ ready = <<>>
    /\ ev = Event("__init__", "ok", "", 0)

RunCallbackNext ==
    \/ RunCallback_await_callback /\ UNCHANGED <<baseVars, ready, botVars, connVars, waitVars, clientVars, tableVars, dictVars>>
    \/ RunCallback_next_item /\ UNCHANGED <<baseVars, ready, botVars, connVars, waitVars, clientVars, tableVars, dictVars>>
    \/ RunCallback_return /\ UNCHANGED <<baseVars, ready, botVars, connVars, waitVars, clientVars, tableVars, dictVars>>

SpecRunCallback == RunCallbackInit /\ [][RunCallbackNext]_vars

----------------------------------------------------------------------------
(* Claims about BaseClient, checked under Spec *)

\* C1: a connect() called while the client is connected raises RuntimeError,
\* opens no transport (none is opened, none is being opened) and leaves
\* connected, reader and writer as they were.
C1_ConnectWhileConnectedFails ==
    [][(connected /\ ev'.op = "connect") =>
          /\ ev'.out = "RuntimeError"
          /\ opened' = opened /\ opening' = opening
          /\ connected' = connected /\ reader' = reader /\ writer' = writer]_vars

C1_Witness ==
    /\ connected /\ reader # 0 /\ writer # 0
    /\ ev.op = "connect" /\ ev.out = "RuntimeError"

\* C2: assigning host, port or ssl while connected raises AttributeError and
\* leaves the field as it was; while disconnected the assignment succeeds and
\* the field holds the assigned value.
C2_ConfigLockedWhileConnected ==
    [][/\ ev'.op = "host.setter" =>
            IF connected THEN ev'.out = "AttributeError" /\ host' = host
                         ELSE ev'.out = "ok" /\ host' = ev'.arg
       /\ ev'.op = "port.setter" =>
            IF connected THEN ev'.out = "AttributeError" /\ port' = port
                         ELSE ev'.out = "ok" /\ port' = ev'.arg
       /\ ev'.op = "ssl.setter" =>
            IF connected THEN ev'.out = "AttributeError" /\ ssl' = ssl
                         ELSE ev'.out = "ok" /\ ssl' = ev'.arg]_vars

C2_Witness ==
    /\ connected
    /\ ev.op = "host.setter" /\ ev.out = "AttributeError" /\ ev.arg # host

\* C3: a disconnect() called while the client is not connected raises nothing,
\* closes no writer and leaves connected, reader and writer as they were.
C3_DisconnectWhileDisconnectedIsNoop ==
    [][(~connected /\ ev'.op = "disconnect") =>
          /\ ev'.out = "noop"
          /\ closes' = closes
          /\ connected' = connected /\ reader' = reader /\ writer' = writer]_vars

C3_Witness ==
    /\ ev.op = "disconnect" /\ ev.out = "noop"
    /\ \E t \in Transports : closes[t] = 1

\* C4: in every state connected holds exactly when reader and writer are both
\* set; a connect that succeeded has set all three, and a disconnect of a
\* connected client has closed its writer (once) and cleared all three.
C4_ConnectedIffStreamsSet ==
    /\ connected <=> (reader # 0 /\ writer # 0)
    /\ (ev.op = "connect.resume" /\ ev.out = "ok") =>
          (connected /\ reader = ev.w /\ writer = ev.w /\ ev.w # 0)
    /\ (ev.op = "disconnect" /\ ev.out = "ok") =>
          (~connected /\ reader = 0 /\ writer = 0 /\ closes[ev.w] = 1)

C4_Witness ==
    /\ ev.op = "disconnect" /\ ev.out = "ok"
    /\ opened = 2

\* C5: a send() called while no writer is present (before the first connect
\* or after a disconnect) raises RuntimeError and writes nothing.
C5_SendWithoutTransportFails ==
    [][(writer = 0 /\ ev'.op = "send") =>
          (ev'.out = "RuntimeError" /\ written' = written)]_vars

C5_Witness ==
    /\ ev.op = "send" /\ ev.out = "RuntimeError"
    /\ writer = 0 /\ opened > 0

----------------------------------------------------------------------------
(* Claims about BotClient / SimpleBot, checked under SpecBot (C17: under    *)
(* SpecBotIntercept)                                                        *)

\* the lines the handler of action a sends for line m
LinesOf(m, a) == {<<m, a, i>> : i \in {j \in 1..Len(Script(a)) : Script(a)[j] = "L"}}

\* how many times line l was written
TimesWritten(l) == Cardinality({k \in 1..Len(written) : written[k][2] = l})

\* C7: in the dispatch of one message, when a handler registered with
\* async=False starts, every other handler registered with async=False that
\* has started for that message has run to completion, pauses included: none
\* of them is waiting on a Future or about to go on.
C7_SyncHandlersRunOneAtATime ==
    [][\A m \in Msgs, b \in Actions :
         (/\ ~is_async[b]
          /\ inst[m][b].st \in {"none", "scheduled"}
          /\ inst'[m][b].st \in {"paused", "done", "failed"})
         => \A a \in Actions \ {b} :
              ~is_async[a] => inst[m][a].st \in {"none", "skipped", "done"}]_vars

\* two handlers registered with async=False have run for the same line, one
\* of them through a pause
C7_Witness ==
    \E m \in Msgs, a, b \in Actions :
        /\ a # b
        /\ ~is_async[a] /\ ~is_async[b]
        /\ "P" \in {Script(a)[i] : i \in 1..Len(Script(a))}
        /\ inst[m][a].st = "done" /\ inst[m][a].pos > Len(Script(a))
        /\ inst[m][b].st = "done"

\* C8: when run() has taken a further line, or waits for one, the dispatch of
\* every line taken before has returned: each of its matching handlers
\* registered with async=False has completed.
C8_NextLineAfterDispatchReturned ==
    \A m \in Msgs :
        (m < nread \/ (m = nread /\ rl.pc \in {"read", "waitdata", "returned"}))
        => \A a \in Actions :
             (~is_async[a] /\ meets_requirements(a, m)) => inst[m][a].st = "done"

\* the second line has been taken, after a handler registered with
\* async=False paused and completed on the first
C8_Witness ==
    /\ nread = 2
    /\ \E a \in Actions :
         /\ ~is_async[a]
         /\ "P" \in {Script(a)[i] : i \in 1..Len(Script(a))}
         /\ inst[1][a].st = "done"
         /\ inst[2][a].st = "none"

\* C9: a handler registered with async=True is run as a task of its own:
\* run() never waits in it, so a line is taken whatever the state of the
\* asynchronous handlers of the lines before; and when such a handler has
\* completed, each line it produced has been written, once.
C9_AsyncHandlerOnlyScheduled ==
    /\ rl.pc = "sync" => ~is_async[rl.cur]
    /\ \A m \in Msgs, a \in Actions :
         is_async[a] =>
           /\ inst[m][a].st \notin {"none", "skipped"} => inst[m][a].task
           /\ inst[m][a].st = "done" => \A l \in LinesOf(m, a) : TimesWritten(l) = 1

\* the dispatch of the second line has returned while the asynchronous
\* handler of the first is still paused, its first line written
C9_Witness ==
    /\ nread = 2 /\ rl.pc = "waitdata"
    /\ \E a \in Actions :
         /\ is_async[a]
         /\ inst[1][a].st = "paused"
         /\ TimesWritten(<<1, a, 1>>) = 1

\* C12: a handler that raises while it is dispatched, registered with
\* async=False or async=True, does not end run(): run() is not terminated by
\* an exception while a handler has failed.  (The other matching handlers of
\* the line and the handlers of later lines run only if run() goes on.)
C12_HandlerFailureContained ==
    (\E m \in Msgs, a \in Actions : inst[m][a].st = "failed") => rl.pc # "crashed"

\* a handler registered with async=False has raised: run() is terminated,
\* another matching handler of the same line has not been called, and a
\* received line is left in the reader
C12_Witness ==
    /\ rl.pc = "crashed"
    /\ rbuf > 0
    /\ \E a, b \in Actions :
         /\ ~is_async[a] /\ inst[rl.m][a].st = "failed" /\ Script(a)[1] = "X"
         /\ meets_requirements(b, rl.m) /\ inst[rl.m][b].st = "none"

\* the requirements of action a, compared without regard to case, all equal
\* the text of line m
RequirementsMet(a, m) ==
    \A i \in 1..Len(Requirements(a)) :
        \/ Requirements(a)[i] = MsgText(m)
        \/ <<Requirements(a)[i], MsgText(m)>> \in {<<"hello", "Hello">>, <<"Hello", "hello">>}

\* C13: the handler of an action is called for a line only if every keyword
\* requirement of the action matches the line, a string requirement without
\* regard to case (text="hello" matches "Hello", not "goodbye"); a handler
\* whose requirements are not met is not called and none of its lines is
\* written; a handler whose requirements are met is not passed over.
C13_OnlyMatchingHandlersInvoked ==
    \A m \in Msgs, a \in Actions :
        /\ inst[m][a].st \notin {"none", "skipped"} => RequirementsMet(a, m)
        /\ ~RequirementsMet(a, m) => \A l \in LinesOf(m, a) : TimesWritten(l) = 0
        /\ inst[m][a].st = "skipped" => ~RequirementsMet(a, m)

\* the action registered with text="hello" has run for the line "Hello" and
\* was passed over for the line "goodbye"
C13_Witness ==
    \E a \in Actions :
        /\ Requirements(a) = <<"hello">>
        /\ MsgText(1) = "Hello" /\ inst[1][a].st = "done" /\ TimesWritten(<<1, a, 1>>) = 1
        /\ MsgText(2) = "goodbye" /\ inst[2][a].st = "skipped"

\* C15: after the reader has reached end of stream and run() has called
\* disconnect, run() does not return: it goes on to connect again.  (run()
\* takes no argument by which the caller could ask for anything else.)
C15_RunReconnectsAfterEof ==
    [][(rl.pc = "read" /\ ev'.op = "disconnect" /\ ev'.out = "ok") =>
           (rl'.pc # "returned" /\ (opening' > opening \/ connected'))]_vars

\* run() has returned: the server closed the connection, disconnect closed
\* the writer, and no connect was made or is under way after the first
C15_Witness ==
    /\ rl.pc = "returned"
    /\ eof /\ ~connected /\ writer = 0
    /\ opened = 1 /\ opening = 0 /\ closes[1] = 1
    /\ ev.op = "disconnect" /\ ev.out = "ok"

\* C16: a received line that does not decode is passed over and run() goes on
\* with the lines after it: the step of run() that takes such a line leaves
\* run() in its read loop, and run() is never ended by the exception while
\* the client is connected.
C16_UndecodableLineSkipped ==
    [][(rl.pc = "read" /\ nread' = nread + 1 /\ ~decode(nread').ok) =>
           (rl'.pc = "read" /\ connected')]_vars

\* run() has ended with UnicodeDecodeError on the first line; the line
\* received after it is left in the reader and no handler was called for it
C16_Witness ==
    /\ rl.pc = "crashed" /\ rl.m = 1 /\ garbled = {1}
    /\ ev.op = "run.read" /\ ev.out = "UnicodeDecodeError"
    /\ nread = 1 /\ rbuf > 0 /\ decode(2).ok
    /\ \A a \in Actions : inst[2][a].st = "none"

\* C17: an action added to or removed from self.actions[command] by another
\* task while trigger is suspended in a handler registered with async=False
\* does not make the dispatch fail and takes no action away from it: when
\* that handler has completed, trigger goes on with the actions it had left.
C17_RegistrationDuringDispatch ==
    [][(rl.pc = "sync" /\ rl'.pc # "sync" /\ inst'[rl.m][rl.cur].st = "done") =>
           /\ rl'.pc = (IF rl.todo = {} THEN "read" ELSE "trigger")
           /\ rl'.todo = rl.todo]_vars

\* the interceptor's action was added while trigger waited in a handler
\* registered with async=False; the handler has completed, trigger has raised
\* RuntimeError, and a matching action registered from the start was not run
C17_Witness ==
    /\ rl.pc = "crashed" /\ ev.arg = "RuntimeError"
    /\ inst[rl.m][rl.cur].st = "done" /\ ~is_async[rl.cur]
    /\ rl.used = Cardinality(Actions) /\ Interceptor \in registered
    /\ \E a \in rl.todo : /\ a \in Actions /\ meets_requirements(a, rl.m)
                          /\ inst[rl.m][a].st = "none"

----------------------------------------------------------------------------
(* Claims about AsyncConnection, checked under SpecConn *)

\* the items a step takes from the head of the queue
Taken == SubSeq(queue, 1, Len(queue) - Len(queue'))

IsLine(item) == item # EXIT

\* C6: the lines are written in the order in which send put them on the
\* queue, whichever handler tasks put them: the ranks of the lines written
\* increase strictly, so no line is written twice; and whenever lines are
\* taken from the queue while there is a transport, they are written to it,
\* each once, in the order of the queue, and nothing else is written.
C6_WrittenInQueueOrder ==
    [][/\ \A i, j \in 1..Len(written') : i < j => written'[i][2] < written'[j][2]
       /\ (Len(queue') < Len(queue) /\ transport # 0) =>
            LET lines == SelectSeq(Taken, IsLine) IN
            written' = written \o [i \in 1..Len(lines) |-> <<transport, lines[i]>>]
       /\ Len(queue') >= Len(queue) => written' = written]_vars

\* both handler tasks have sent their lines, in turn, and all four lines are
\* written, the last ones after a disconnect and a second connect
C6_Witness ==
    /\ \A h \in Handlers : hpos[h] = Len(HandlerScript)
    /\ Len(written) = nsent
    /\ \E t \in Transports : written[1][1] = t /\ written[nsent][1] # t
    /\ \E d \in Disconnects : disc[d] = "done"

----------------------------------------------------------------------------
(* Claims about Client.wait_for, checked under SpecWait *)

\* the first message dispatched since wait_for registered its callback that
\* the Validator of the wait accepts
FirstMatching ==
    CHOOSE k \in (wt.since + 1)..ndisp :
        /\ Validator(k)
        /\ \A j \in (wt.since + 1)..(k - 1) : ~Validator(j)

\* C10: once wait_for has registered its callback, the Future is resolved
\* with the arguments of the first matching message dispatched, and no later
\* message changes it; when the wait returns, the callback has been removed
\* from the callback table, and a message dispatched from then on creates no
\* task for it.
C10_WaitResolvesOnceWithFirst ==
    [][/\ fut.state = "result" => fut' = fut
       /\ (fut.state = "pending" /\ fut'.state = "result") => fut'.result = FirstMatching
       /\ wt'.st = "returned" =>
            /\ "waiter" \notin Range(callbacks')
            /\ fut'.state = "result" /\ ev'.w = fut'.result
       /\ (wt.st = "returned" /\ ndisp' > ndisp) =>
            \A i \in 1..Len(ready') : ready'[i][1] # "waiter"]_vars

\* the wait has returned, its callback is still in the table, and a message
\* dispatched since then has a task that will call waiter
C10_Witness ==
    /\ wt.st = "returned"
    /\ "waiter" \in Range(callbacks)
    /\ ev.op = "data_received"
    /\ \E i \in 1..Len(ready) : ready[i] = <<"waiter", ndisp>> /\ Validator(ndisp)

\* C11: when the timeout elapses with no matching message dispatched, the
\* wait fails with TimeoutError; when it has failed, the callback of the wait
\* is no longer in the callback table, whether or not waiter was ever
\* called, and a message dispatched from then on creates no task for it.
C11_TimeoutRemovesCallback ==
    [][/\ (ev'.op = "wait_for" /\ ev'.out # "suspended" /\ fut.state = "pending")
            => (ev'.out = "TimeoutError" /\ wt'.st = "TimeoutError")
       /\ wt'.st = "TimeoutError" => "waiter" \notin Range(callbacks')
       /\ (wt.st = "TimeoutError" /\ ndisp' > ndisp) =>
            \A i \in 1..Len(ready') : ready'[i][1] # "waiter"]_vars

\* the wait has failed with TimeoutError without a call of waiter, and a
\* matching message dispatched since then has a task that will call waiter
C11_Witness ==
    /\ wt.st = "TimeoutError"
    /\ invoked = <<>>
    /\ ev.op = "data_received"
    /\ \E i \in 1..Len(ready) : ready[i] = <<"waiter", ndisp>> /\ Validator(ndisp)

----------------------------------------------------------------------------
(* Claims about Client.connect, disconnect and shutdown, checked under     *)
(* SpecClientLive                                                          *)

\* C14: every connect that succeeds triggers CONNECTED once, with the peer of
\* the transport it has just stored; a disconnect of a connected client reads
\* the peer of the transport, and when it goes on after the queue is joined
\* it sets the transport to None and then triggers DISCONNECTED once, with
\* that peer and the exc it was called with; nothing else triggers either
\* event; and every disconnect of a connected client gets there (unless
\* shutdown is called meanwhile).
C14_ConnectAndDisconnectEvents ==
    /\ [][/\ (ev'.op = "AsyncConnection.connect" /\ ev'.out = "ok") =>
                /\ transport' = opened' /\ transport' # 0
                /\ events' = Append(events, <<"CONNECTED", peername(transport')>>)
          /\ (ev'.op = "AsyncConnection.disconnect" /\ ev'.out = "suspended") =>
                /\ dloc'[NextDisconnect].peer = peername(transport)
                /\ events' = events
          /\ (ev'.op = "AsyncConnection.disconnect" /\ ev'.out = "ok") =>
                \E d \in Disconnects :
                    /\ disc[d] = "woken" /\ disc'[d] = "done"
                    /\ transport' = 0
                    /\ events' = Append(events, <<"DISCONNECTED", dloc[d].peer, dloc[d].exc>>)
          /\ events' # events =>
                (ev'.op \in {"AsyncConnection.connect", "AsyncConnection.disconnect"}
                 /\ ev'.out = "ok")]_vars
    /\ \A d \in Disconnects : (disc[d] = "joining") ~> (disc[d] = "done" \/ sd.st # "none")

\* a disconnect of a connected client, called with the error of the
\* transport, waits in join while a line is left on the queue behind EXIT:
\* the _run task has ended, nothing is ready and no connect is under way
C14_Witness ==
    /\ \E d \in Disconnects :
         disc[d] = "joining" /\ dloc[d].exc = "ConnectionResetError"
    /\ \A t \in Transports : runner[t] \in {"none", "exited"}
    /\ \E i \in 1..Len(queue) : IsLine(queue[i])
    /\ lost = {}
    /\ ready = <<>> /\ opening = 0 /\ sd.st = "none"
    /\ events = <<<<"CONNECTED", peername(1)>>>>

\* C18: when shutdown goes on after join, every line that was put on the
\* queue before shutdown was called has been written to the transport; it
\* then calls cancel() on every task that is not done (the handler tasks
\* among them) and stops the loop; and a shutdown that was called gets there.
C18_ShutdownDrainsThenCancels ==
    /\ [][(sd.st # "done" /\ sd'.st = "done") =>
             /\ \A l \in 1..sd.mark : \E i \in 1..Len(written) : written[i][2] = l
             /\ \A h \in Handlers : hpos[h] < Len(HandlerScript) => <<"handler", h>> \in cancelled'
             /\ cancelled' = all_tasks]_vars
    /\ (sd.st = "joining") ~> (sd.st = "done")

\* shutdown waits in join after the server closed the connection: disconnect
\* has ended the _run task and set the transport to None, a handler has sent
\* a line since, and the line and EXIT stay on the queue with nothing ready
C18_Witness ==
    /\ sd = [st |-> "joining", mark |-> 1]
    /\ queue = <<1, EXIT>> /\ written = <<>>
    /\ transport = 0 /\ opening = 0 /\ ready = <<>>
    /\ \A t \in Transports : runner[t] \in {"none", "exited"}
    /\ events = <<<<"CONNECTED", peername(1)>>,
                  <<"DISCONNECTED", peername(1), "ConnectionResetError">>>>
    /\ cancelled = {}


-----------------------------------------------------------------------------
(* Claims about the table of registered actions: C19 is checked under      *)
(* SpecOn, C20 under SpecSynonym.                                          *)

\* two spellings of one command name, whatever the letter casing
Names == {{"privmsg", "Privmsg", "PRIVMSG"}, {"PING"}, {"001"}, {"RPL_WELCOME"}}

SameName(c, d) == \E n \in Names : c \in n /\ d \in n

Synonyms(c, d) == {c, d} = {"001", "RPL_WELCOME"}

\* C20: a message whose command is c invokes the actions registered under
\* c and those registered under the synonym of c, whether c is the numeric
\* or the mnemonic.
C20_SynonymsBothDirections ==
    [][ev'.op = "trigger" =>
          fired' = {a \in Ons : \E r \in regs :
                        r[2] = a /\ (r[1] = ev'.arg \/ Synonyms(r[1], ev'.arg))}]_vars

\* an action registered under the numeric only, and a message whose command
\* is the mnemonic has invoked nothing
C20_Witness ==
    /\ ev.op = "trigger" /\ ev.arg = "RPL_WELCOME"
    /\ regs = {<<"001", 1>>}
    /\ fired = {}

\* the direction that holds: a message whose command is the numeric invokes
\* the actions registered under the numeric and under its mnemonic
C20_NumericInvokesMnemonic ==
    [][(ev'.op = "trigger" /\ ev'.arg = "001") =>
          fired' = {a \in Ons : \E r \in regs : r[2] = a /\ r[1] \in {"001", "RPL_WELCOME"}}]_vars

-----------------------------------------------------------------------------
(* Claims about Client.register and deregister, checked under SpecRegister *)

\* the tasks trigger created for callback cb and message k
TasksFor(q, cb, k) == Cardinality({i \in 1..Len(q) : q[i] = <<cb, k>>})

\* C21: registering a callback that is already registered changes nothing:
\* a message creates one task for each registered callback, however often
\* it was registered, and after one deregister of a callback no message is
\* passed to it any more.
C21_ReRegisterIsNoOp ==
    /\ [][ev'.op = "trigger" =>
            \A cb \in Range(callbacks) : TasksFor(ready', cb, ndisp') = 1]_vars
    /\ [][(ev'.op = "deregister" /\ ev'.out = "ok") =>
            ev'.arg \notin Range(callbacks')]_vars

\* the callback of on() was registered a second time and deregistered once:
\* it is still in the table, and the message before was passed to it twice
C21_Witness ==
    /\ ev.op = "deregister" /\ ev.out = "ok" /\ ev.arg = "on"
    /\ callbacks = <<"on">>
    /\ ndisp = 1
    /\ ready = <<<<"on", 1>>, <<"on", 1>>>>

\* C22: a disconnect called while there is no transport raises no error,
\* does not suspend, and triggers no DISCONNECTED: it ends at once and
\* leaves the queue and the events as they were.
C22_DisconnectWithoutTransportIsNoOp ==
    [][(transport = 0 /\ ev'.op = "Client.disconnect") =>
          (ev'.out = "ok" /\ events' = events /\ queue' = queue /\ disc' = disc)]_vars

\* a disconnect has completed (DISCONNECTED was triggered, the transport is
\* None) and the next call of disconnect has raised AttributeError
C22_Witness ==
    /\ ev.op = "Client.disconnect" /\ ev.out = "AttributeError"
    /\ transport = 0
    /\ Len(events) = 2 /\ events[2][1] = "DISCONNECTED"
    /\ \A d \in Disconnects : disc[d] \in {"none", "done"}

-----------------------------------------------------------------------------
(* Claims about CaseInsensitiveDefaultDict, checked under SpecDict *)

\* the spellings of one key
KeyNames == {{"PRIVMSG", "privmsg", "Privmsg"}, {"PING", "ping"}}

SameKey(k, l) == \E n \in KeyNames : k \in n /\ l \in n

\* the entries of the mapping: <<key, value>>
Entries(d) == {d[f] : f \in {g \in Folded : present(d, g)}}

\* C23 (as amended): keys that are equal after case folding refer to one
\* entry: the mapping never holds two keys of one name and len counts the
\* names; a value set under one spelling is read under every spelling and
\* deleted under any; and iteration yields for each entry the spelling of
\* the call that set it last (an assignment, or the lookup that created it).
C23_OneEntryPerFoldedKey ==
    /\ [](\A n \in KeyNames : Cardinality(iter(dict) \cap n) <= 1)
    /\ [](len(dict) = Cardinality({n \in KeyNames : iter(dict) \cap n # {}}))
    /\ [][ev'.op = "setitem" =>
            /\ ev'.arg \in iter(dict')
            /\ \E e \in Entries(dict') : e = <<ev'.arg, ev'.w>>]_vars
    /\ [][(ev'.op \in {"getitem", "get"} /\ \E e \in Entries(dict) : SameKey(e[1], ev'.arg)) =>
            /\ ev'.out = "ok"
            /\ \E e \in Entries(dict) : SameKey(e[1], ev'.arg) /\ e[2] = ev'.w
            /\ dict' = dict]_vars
    /\ [][(ev'.op = "getitem" /\ ev'.out = "ok" /\ dict' # dict) =>
            /\ ev'.arg \in iter(dict')
            /\ \A e \in Entries(dict) : ~SameKey(e[1], ev'.arg)]_vars
    /\ [][(ev'.op = "delitem" /\ \E e \in Entries(dict) : SameKey(e[1], ev'.arg)) =>
            /\ ev'.out = "ok"
            /\ \A e \in Entries(dict') : ~SameKey(e[1], ev'.arg)
            /\ len(dict') = len(dict) - 1]_vars

\* a value set under PRIVMSG has been set again under privmsg: one entry,
\* read under Privmsg, and iteration yields privmsg
C23_Witness ==
    /\ ev.op = "getitem" /\ ev.arg = "Privmsg" /\ ev.w = 2
    /\ inserted["privmsg"] = "PRIVMSG"
    /\ iter(dict) = {"privmsg"}
    /\ len(dict) = 1

\* C23 as stated: iteration yields for each entry the key with which the
\* entry was first inserted
C23_IterationYieldsFirstInsertedKey ==
    \A f \in Folded : present(dict, f) => dict[f][1] = inserted[f]

\* C24: for a key that is not in the mapping, get(key, default) returns
\* default and leaves the mapping as it was; d[key] inserts the new value
\* of the factory under that key and returns it; and d[key] without a
\* factory raises KeyError and leaves the mapping as it was.
C24_GetDoesNotInsertSubscriptDoes ==
    [][(ev'.op \in {"get", "getitem"} /\ \A e \in Entries(dict) : ~SameKey(e[1], ev'.arg)) =>
          IF ev'.op = "get"
          THEN ev'.out = "ok" /\ ev'.w = Default /\ dict' = dict
          ELSE IF default_factory = "None"
          THEN ev'.out = "KeyError" /\ dict' = dict
          ELSE /\ ev'.out = "ok" /\ ev'.w = NewList
               /\ Entries(dict') = Entries(dict) \cup {<<ev'.arg, NewList>>}]_vars

\* a subscript has inserted the new value under ping, and a get of PRIVMSG,
\* which is not in the mapping, has returned the default and inserted nothing
C24_Witness ==
    /\ ev.op = "get" /\ ev.arg = "PRIVMSG" /\ ev.w = Default
    /\ default_factory = "list"
    /\ dict["privmsg"] = <<>>
    /\ dict["ping"] = <<"ping", NewList>>

-----------------------------------------------------------------------------
(* Claims about the functions of utils and commands, checked under         *)
(* SpecUtils                                                               *)

\* the line split at the first " :": the tokens before it, and what follows
\* it as it is
Before(l) ==
    IF find(l, <<" ", ":">>) = {} THEN l
    ELSE SubSeq(l, 1, Min(find(l, <<" ", ":">>)) - 1)

Trailing(l) ==
    IF find(l, <<" ", ":">>) = {} THEN <<>>
    ELSE <<SubSeq(l, Min(find(l, <<" ", ":">>)) + 2, Len(l))>>

\* the tokens before the trailing parameter, the prefix left out
Middle(l) ==
    LET toks == split(Before(l))
    IN IF toks # <<>> /\ Head(toks) # <<>> /\ Head(Head(toks)) = ":"
       THEN Tail(toks) ELSE toks

\* C25: ircsplit splits the line at the first " :": params is the tokens
\* that follow the command before it, in order, and then everything after
\* it as one parameter, taken as it is.
C25_SplitAtFirstSeparator ==
    ev.op = "ircsplit" =>
        /\ fout.command = (IF Middle(fin.line) = <<>> THEN <<>> ELSE Head(Middle(fin.line)))
        /\ fout.params = (IF Middle(fin.line) = <<>> THEN <<>> ELSE Tail(Middle(fin.line)))
                         \o Trailing(fin.line)

\* the line "c :c :c" has been split at its second " :": the parameters
\* are ":c" and "c", not "c :c"
C25_Witness ==
    /\ ev.op = "ircsplit"
    /\ fin.line = <<"c", " ", ":", "c", " ", ":", "c">>
    /\ fout.command = <<"c">>
    /\ fout.params = <<<<":", "c">>, <<"c">>>>

\* a prefix of the form nick[!user][@host]: at most one '!', at most one
\* '@', and the '!' before the '@'
OfPrefixForm(p) ==
    /\ Cardinality(places(p, "!")) <= 1
    /\ Cardinality(places(p, "@")) <= 1
    /\ \A i \in places(p, "!"), j \in places(p, "@") : i < j

\* the place at which the nick of a prefix ends, and the components
NickEnd(p) == Min(places(p, "!") \cup places(p, "@") \cup {Len(p) + 1})

UserOf(p) ==
    IF places(p, "!") = {} THEN <<>>
    ELSE SubSeq(p, NickEnd(p) + 1, Min(places(p, "@") \cup {Len(p) + 1}) - 1)

HostOf(p) ==
    IF places(p, "@") = {} THEN <<>>
    ELSE SubSeq(p, Min(places(p, "@")) + 1, Len(p))

\* C26: prefixsplit returns the nick, the user and the host of a prefix
\* nick[!user][@host], each empty when the prefix does not hold it; a prefix
\* with neither '!' nor '@' is the host; an empty prefix gives three empty
\* strings.
C26_PrefixComponents ==
    (ev.op = "prefixsplit" /\ OfPrefixForm(fin.prefix)) =>
        IF places(fin.prefix, "!") \cup places(fin.prefix, "@") = {}
        THEN fout = [nick |-> <<>>, user |-> <<>>, host |-> fin.prefix]
        ELSE fout = [nick |-> SubSeq(fin.prefix, 1, NickEnd(fin.prefix) - 1),
                     user |-> UserOf(fin.prefix),
                     host |-> HostOf(fin.prefix)]

\* the prefix a!a (a nick and a user) has been split: the user is not in
\* the result
C26_Witness ==
    /\ ev.op = "prefixsplit"
    /\ fin.prefix = <<"a", "!", "a">>
    /\ fout = [nick |-> <<"a">>, user |-> <<>>, host |-> <<>>]

\* C27: topic(channel) renders the query, with no trailing parameter;
\* topic(channel, '') renders a line with an empty trailing parameter after
\* the colon; and the two lines differ.
C27_TopicQueryAndClearDiffer ==
    ev.op = "topic" =>
        /\ fin.topic = <<>> => fout = <<TOPIC, " ", fin.channel, CRLF>>
        /\ fin.topic = <<"">> =>
              /\ fout = <<TOPIC, " ", fin.channel, " ", ":", "", CRLF>>
              /\ fout # topic(fin.channel, <<>>)

\* topic('#chitchat', '') has rendered the line of the query
C27_Witness ==
    /\ ev.op = "topic"
    /\ fin.channel = "#chitchat" /\ fin.topic = <<"">>
    /\ fout = <<TOPIC, " ", "#chitchat", CRLF>>

-----------------------------------------------------------------------------
(* Claims about supported and add_support, checked under SpecISupport      *)

\* the tokens between the target and the trailing text
MiddleTokens(params) == SubSeq(params, 2, Len(params) - 1)

\* the last token of a feature
LastToken(tokens, feature) ==
    tokens[Max({i \in 1..Len(tokens) : tokens[i][1] = feature})]

\* the message of the example: CHANLIMIT=#:75 CHANNELLEN=50 PREFIX=(ov)@+
ExampleParams ==
    <<"nick",
      <<"CHANLIMIT", "=", "#", ":", "7", "5">>,
      <<"CHANNELLEN", "=", "5", "0">>,
      <<"PREFIX", "=", "(", "o", "v", ")", "@", "+">>,
      "are supported by this server">>

ExampleFeatures ==
    [f \in {"CHANLIMIT", "CHANNELLEN", "PREFIX"} |->
        CASE f = "CHANLIMIT" -> [t |-> "dict", v |-> [c \in {"#"} |-> 75]]
          [] f = "CHANNELLEN" -> [t |-> "int", v |-> 50]
          [] f = "PREFIX" -> [t |-> "dict", v |-> [c \in {"o", "v"} |-> IF c = "o" THEN "@" ELSE "+"]]]

\* C28: supported leaves out the target and the trailing text and maps the
\* feature of every other token: to None if the token has no value, to the
\* rule of the feature applied to the value if the table has one, and to
\* list(value) otherwise; the message of the example gives CHANLIMIT
\* {'#': 75}, CHANNELLEN 50 and PREFIX {'o': '@', 'v': '+'}.
C28_SupportedMapsEveryToken ==
    ev.op = "supported" =>
        LET tokens == MiddleTokens(fin.params) IN
        /\ DOMAIN fout = {tokens[i][1] : i \in 1..Len(tokens)}
        /\ \A f \in DOMAIN fout :
              LET tok == LastToken(tokens, f)
                  value == SubSeq(tok, 3, Len(tok))
              IN fout[f] = IF Len(tok) = 1 THEN None
                           ELSE IF f \in DOMAIN ISUPPORT /\ ISUPPORT[f].kind = "function"
                           THEN apply(ISUPPORT[f], value)
                           ELSE [t |-> "list", v |-> value]
        /\ (fin.params = ExampleParams /\ ISUPPORT = ISUPPORT0) => fout = ExampleFeatures

\* the message of the example has been parsed with the rules of the module
C28_Witness ==
    /\ ev.op = "supported"
    /\ fin.params = ExampleParams
    /\ ISUPPORT = ISUPPORT0
    /\ fout["CHANLIMIT"].v["#"] = 75
    /\ fout["CHANNELLEN"].v = 50
    /\ fout["PREFIX"].v["v"] = "+"

\* C29: add_support merges every entry it is given, in the mapping or as a
\* keyword argument, into the table, so that each of these features has its
\* new rule afterwards; and an entry that was not given is neither removed
\* nor changed.
C29_AddSupportMerges ==
    [][ev'.op = "add_support" =>
          LET given == update(IF fin'.other = <<>> THEN EmptyDict ELSE fin'.other[1],
                              fin'.kwargs)
          IN /\ \A f \in DOMAIN given : f \in DOMAIN ISUPPORT' /\ ISUPPORT'[f] = given[f]
             /\ \A f \in DOMAIN ISUPPORT \ DOMAIN given :
                   f \in DOMAIN ISUPPORT' /\ ISUPPORT'[f] = ISUPPORT[f]]_vars

\* add_support({'WHOX': int}) has been called: the table has no rule for
\* WHOX, it has the mapping under the key 'other', and WHOX=12 has been
\* parsed with list
C29_Witness ==
    /\ ev.op = "supported"
    /\ fin.other = <<[k \in {"WHOX"} |-> Rule("int")]>>
    /\ "WHOX" \notin DOMAIN ISUPPORT
    /\ "other" \in DOMAIN ISUPPORT /\ ISUPPORT["other"].kind = "dict"
    /\ fin.params = <<"nick", <<"WHOX", "=", "1", "2">>, "are supported by this server">>
    /\ fout["WHOX"] = [t |-> "list", v |-> <<"1", "2">>]

(***************************************************************************)
(* Claims about the _run task of AsyncConnection, checked under SpecConn   *)
(***************************************************************************)

\* the _run tasks that exist and have not ended: scheduled, or suspended in
\* queue.get
Writers == {t \in Transports : runner[t] \in {"ready", "waiting"}}

\* C30: across any sequence of connect and disconnect calls on an
\* AsyncConnection, at most one _run task consuming the outgoing queue
\* exists at any time.
C30_AtMostOneWriterTask == Cardinality(Writers) <= 1

\* C30: a second connect has completed while the _run task of the first is
\* suspended in queue.get, and both tasks now wait on the one queue
C30_Witness ==
    /\ Cardinality(Writers) = 2
    /\ Len(getters) = 2
    /\ \A d \in Disconnects : disc[d] = "none"

(***************************************************************************)
(* Claims about a disconnected Client, checked under SpecClient            *)
(***************************************************************************)

\* the lines (not EXIT) that are on queue q
QueuedLines(q) == {q[i] : i \in {j \in 1..Len(q) : IsLine(q[j])}}

\* a call of Client.disconnect has completed and no connect has completed
\* since: the transport is None
Disconnected == transport = 0 /\ \E d \in Disconnects : disc[d] = "done"

\* while disconnected nothing is written and every line on the queue stays
\* on it
StaysQueued ==
    /\ written' = written
    /\ QueuedLines(queue) \subseteq QueuedLines(queue')

\* C31: after Client.disconnect has completed, nothing is written to a
\* transport until the next connect, and the lines passed to send in
\* between stay on the queue (the _run task of the next connect then writes
\* them in the order of the queue).
C31_QueuedUntilReconnect == [][Disconnected => StaysQueued]_vars

\* C31: after a disconnect has completed, a line that was sent has been taken
\* from the queue by a _run task that was left, and is neither written nor
\* queued
C31_Witness ==
    /\ Disconnected
    /\ ev.op = "AsyncConnection._run" /\ ev.out = "failed"
    /\ \E l \in lost : l \notin QueuedLines(queue) /\ TimesWritten(l) = 0

\* C31, for a client on which no connect was called while it was connected:
\* with at most one _run task, and none left once the disconnect has
\* completed, the lines stay queued
C31_QueuedUntilReconnectOneWriter ==
    [][(Disconnected /\ Writers = {}) => StaysQueued]_vars

(***************************************************************************)
(* Claims about SimpleBot.intercept, checked under SpecIntercept           *)
(***************************************************************************)

\* the command sets that hold the action of the interceptor
Holding == {k \in Spellings : Interceptor \in actions[k]}

\* C32: intercept hands at most one message to its block, and when the
\* intercept has ended, by a message or by the timeout, the action of its
\* interceptor is in no command set: it was removed from every set it was
\* added to.
C32_InterceptorRemovedAtEnd ==
    /\ icpt.task = "done" => icpt.result \in 1..nread
    /\ icpt.st = "ended" => Holding = {}

\* C32: the intercept has ended with a message, and the action of its
\* interceptor is still in a command set it was added to
C32_Witness ==
    /\ icpt.st = "ended"
    /\ icpt.task = "done"
    /\ \E i \in 1..Len(icpt.commands) : upper(icpt.commands[i]) \in Holding

\* C32, for an intercept whose commands are distinct once uppercased: the
\* action is removed from every set when the intercept has ended
C32_RemovedForDistinctCommands ==
    (/\ icpt.st = "ended"
     /\ \A i, j \in 1..Len(icpt.commands) :
          upper(icpt.commands[i]) = upper(icpt.commands[j]) => i = j)
    => Holding = {}

\* C32: the messages the interceptor puts on its queue: at most one
C32_PutsAtMostOne == icpt.puts <= 1

(***************************************************************************)
(* Claims about Client.trigger of client.py, checked under SpecTrigger     *)
(***************************************************************************)

\* the tasks a step has appended to the ready queue of the loop
NewTasks == SubSeq(ready', Len(ready) + 1, Len(ready'))

\* C33: trigger creates exactly one task for every entry of the callbacks of
\* the message's command and for every entry of the callbacks of ALL, in the
\* order of registration, those of the command before those of ALL; and the
\* loop starts the tasks in the order in which they were created.
C33_OneTaskPerCallbackInOrder ==
    /\ [][ev'.op = "trigger" =>
            /\ SubSeq(ready', 1, Len(ready)) = ready
            /\ Len(NewTasks) = Len(callbacks) + Len(all_callbacks)
            /\ \A i \in 1..Len(callbacks) : NewTasks[i] = <<callbacks[i], ndisp'>>
            /\ \A i \in 1..Len(all_callbacks) :
                 NewTasks[Len(callbacks) + i] = <<all_callbacks[i], ndisp'>>]_vars
    /\ [][ev'.op = "_run_callback" =>
            /\ ready' = Tail(ready)
            /\ <<ev'.out, ev'.w>> = Head(ready)]_vars

\* C33: with on and plugin registered under the command and plugin and on
\* under ALL, the tasks of the first message have started in that order, the
\* last one being still to run
C33_Witness ==
    /\ callbacks = <<"on", "plugin">>
    /\ all_callbacks = <<"plugin", "on">>
    /\ ev.op = "_run_callback" /\ ev.out = "plugin" /\ ev.w = 1
    /\ ready = <<<<"on", 1>>>>

(***************************************************************************)
(* Claims about IRCProtocol.data_received, checked under SpecProtocol      *)
(***************************************************************************)

\* the part of the stream that was passed to data_received
Fed == SubSeq(fin.stream, 1, fin.pos)

\* b without a carriage return at its end
WithoutCR(b) ==
    IF b # <<>> /\ b[Len(b)] = "\r" THEN SubSeq(b, 1, Len(b) - 1) ELSE b

\* the lines of b that a line feed ends, in order, without their line ending
RECURSIVE TerminatedLines(_)
TerminatedLines(b) ==
    LET i == first_of(b, {"\n"}) IN
    IF i = 0 THEN <<>>
    ELSE <<WithoutCR(SubSeq(b, 1, i - 1))>> \o TerminatedLines(SubSeq(b, i + 1, Len(b)))

\* what follows the last line feed of b
UnterminatedTail(b) == SubSeq(b, last_of(b, {"\n"}) + 1, Len(b))

\* C34: the lines passed to client.handle are the lines of the stream so far
\* that a line feed ends, each once and in order; what follows the last line
\* feed is in the buffer; and when the whole stream was passed, the lines
\* handled are those handled when it is passed as one chunk.
C34_EveryLineOnceInOrder ==
    /\ fout.handled = TerminatedLines(Fed)
    /\ fout.buffer = UnterminatedTail(Fed)
    /\ fin.pos = Len(fin.stream) =>
         fout.handled = data_received_of(<<>>, fin.stream).lines

\* C34: the whole stream was passed, in more than one chunk, and the lines
\* handled are not those handled when it is passed as one chunk
C34_Witness ==
    /\ fin.pos = Len(fin.stream)
    /\ fout.handled # data_received_of(<<>>, fin.stream).lines
    /\ fout.buffer = UnterminatedTail(Fed)

\* a stream with no empty line and no carriage return but before a line feed
PlainStream(b) ==
    \A i \in 1..Len(b) :
        /\ b[i] = "\n" => (i > 1 /\ b[i - 1] # "\n" /\ (b[i - 1] = "\r" => (i > 2 /\ b[i - 2] = "a")))
        /\ b[i] = "\r" => (i < Len(b) => b[i + 1] = "\n")

\* C34, for such streams
C34_EveryLineOnceInOrderPlain == PlainStream(fin.stream) => C34_EveryLineOnceInOrder

(***************************************************************************)
(* Claims about Client._run_callback, checked under SpecRunCallback        *)
(***************************************************************************)

\* the places of the list the callback returned
Places == IF fin.result.t = "None" THEN {} ELSE 1..Len(fin.result.v)

\* the item at place i
Item(i) == fin.result.v[i]

\* the places of the list, in order, whose item satisfies Test
PlacesWhere(Test(_)) ==
    IF fin.result.t = "None" THEN <<>>
    ELSE SelectSeq([i \in 1..Len(fin.result.v) |-> i], Test)

\* the items the loop has gone through: those the iterator has left behind
GoneThrough(i) ==
    /\ fout.st # "created"
    /\ \A k \in 1..Len(fout.it) : fout.it[k] # i

IsAwaitable(kind) == kind \in {"awaitable", "awaitable TypeError", "awaitable Timeout"}

Completed(d) ==
    /\ disc[d] = "done"
    /\ \E i \in 1..Len(events) : events[i] = <<"DISCONNECTED", dloc[d].peer, dloc[d].exc>>

\* C36: every call of disconnect on a connected client that waits for the
\* queue to drain completes in the end: the join returns, the transport is
\* set to None and DISCONNECTED is dispatched, whatever handler tasks send
\* and whatever other disconnect runs meanwhile (unless shutdown stops the
\* loop).
C36_DisconnectCompletes ==
    \A d \in Disconnects : (disc[d] = "joining") ~> (Completed(d) \/ sd.st # "none")

\* C36: two calls of disconnect wait in join, the second made while the first
\* was waiting; the _run task has ended at the first EXIT, the second EXIT
\* stays on the queue, nothing is ready and no connect is under way
C36_Witness ==
    /\ \A d \in Disconnects : disc[d] = "joining"
    /\ queue = <<EXIT>> /\ unfinished = 1
    /\ \A t \in Transports : runner[t] \in {"none", "exited"}
    /\ transport # 0 /\ nsent = 0
    /\ ready = <<>> /\ opening = 0 /\ sd.st = "none"

(***************************************************************************)
(* Claims about overlapping calls of BaseClient.connect, checked under     *)
(* Spec                                                                    *)
(***************************************************************************)

\* the stream pairs that were opened, are not the pair of the client and
\* were never closed
Unclosed == {t \in 1..opened : t # writer /\ closes[t] = 0}

\* C37: when calls of connect overlap, at most one of them succeeds: a
\* connect goes on after open_connection only on a client that is not
\* connected, so no pair that was opened is overwritten, and every pair that
\* was opened and is not the client's has been closed.
C37_OverlappingConnectsOpenOne ==
    /\ [][(ev'.op = "connect.resume" /\ ev'.out = "ok") =>
            (~connected /\ writer = 0)]_vars
    /\ [](Unclosed = {})

\* C37: two calls of connect were suspended in open_connection at once, both
\* have gone on, and the pair of the first was overwritten and never closed
C37_Witness ==
    /\ ev.op = "connect.resume" /\ ev.out = "ok"
    /\ opened = 2 /\ opening = 0
    /\ connected /\ writer = 2 /\ reader = 2
    /\ Unclosed = {1}

-----------------------------------------------------------------------------
(* Claim about the registration table of chitchat/__init__.py across a     *)
(* call of Client.trigger, checked under SpecSynonym                       *)

\* C38: dispatching a message with Client.trigger does not change the
\* registration table: after trigger the set of actions registered under
\* every command, the command of the message and its synonym included, is
\* what it was before the call.
C38_TriggerKeepsTable ==
    [][ev'.op = "trigger" => actions' = actions]_vars

\* an action registered under the mnemonic only; a message whose command is
\* the numeric was dispatched, and the action is now in the numeric's set too
C38_Witness ==
    /\ ev.op = "trigger" /\ ev.arg = "001"
    /\ regs = {<<"RPL_WELCOME", 1>>}
    /\ 1 \in actions["001"]

\* what holds: trigger changes no set but that of the message's command, and
\* it removes nothing from that one
C38_TriggerOnlyGrowsOwnSet ==
    [][ev'.op = "trigger" =>
          /\ \A c \in DOMAIN actions : c # ev'.arg => actions'[c] = actions[c]
          /\ actions[ev'.arg] \subseteq actions'[ev'.arg]]_vars

-----------------------------------------------------------------------------
(* Claim about the read-only operations of CaseInsensitiveDefaultDict,     *)
(* checked under SpecDict                                                  *)

\* the calls that only read: key in d, get, len, iteration
ReadOnly == {"contains", "get", "len", "iter"}

\* C39: the read-only operations of a CaseInsensitiveDefaultDict (key in d,
\* get, len, iteration) never add, remove or change an entry, with or
\* without a default factory, and key in d is true exactly for the keys
\* that were inserted and not deleted.
C39_ReadOnlyOperationsKeepEntries ==
    [][ev'.op \in ReadOnly =>
          /\ dict' = dict
          /\ (ev'.op = "contains" =>
                (ev'.w = 1 <=> present(dict, transform(ev'.arg))))]_vars

\* a mapping with a default factory that held PRIVMSG only was asked whether
\* it holds ping; the answer was True and ping is now an entry
C39_Witness ==
    /\ ev.op = "contains" /\ ev.arg = "ping" /\ ev.w = 1
    /\ default_factory = "list"
    /\ inserted = [f \in Folded |-> IF f = "privmsg" THEN "PRIVMSG" ELSE "ping"]
    /\ dict["ping"] = <<"ping", NewList>>

\* what holds: get, len and iteration change nothing, with or without a
\* default factory
C39_GetLenIterKeepEntries ==
    [][ev'.op \in {"get", "len", "iter"} => dict' = dict]_vars

\* what holds: without a default factory key in d changes nothing and is
\* true exactly for the keys that are entries
C39_ContainsWithoutFactory ==
    [][(ev'.op = "contains" /\ default_factory = "None") =>
          /\ dict' = dict
          /\ (ev'.w = 1 <=> present(dict, transform(ev'.arg)))]_vars

====
